---- MODULE Spec2Model ----
(***************************************************************************)
(* Model of the provenance-matching pipeline of package-validation-tool:   *)
(* the RPM source-package adapter (lazy initialisation, archive matcher,   *)
(* repository matcher) and the single-package validator built on it.       *)
(*                                                                         *)
(* One behaviour is one call of a package-level entry point on one         *)
(* package.  Everything outside the process (the source-package provider,  *)
(* rpmbuild, the network, git, the file system) is an input chosen at the  *)
(* step that consults it.                                                  *)
(***************************************************************************)
EXTENDS Integers, Sequences, FiniteSets, TLC

\* ------------------------------------------------------------------ bounds
MaxArchives == 2   \* local archives in the source package
MaxSugg == 2       \* suggestions handed to the match operations of one run
MaxFiles == 1      \* files the file matcher records for one candidate

\* --------------------------------------------------------------- alphabets
None == "None"                       \* Python's None / empty string (falsy)
Urls == {"u1", "u2"}                 \* remote archive / repository URLs
Hashes == {"h1", "h2"}               \* sha256 sums and git tree hashes
Confidences == {5, 10}               \* confidence 0.5 and 1.0, in tenths
MATCHING == "MATCHING"
NO_COUNTERPART == "NO_COUNTERPART"
DIFFERENT == "DIFFERENT"
FileMatchState == {MATCHING, NO_COUNTERPART, DIFFERENT}

SeqsUpTo(S, n) == UNION {[1..k -> S] : k \in 0..n}

\* A state_dict of the file matcher, in insertion order (the keys are left out:
\* only the states are read by the callers).
StateDicts == SeqsUpTo(FileMatchState, MaxFiles)

RemoteArchiveSuggestion == [remote_archive : Urls \cup {None}, confidence : Confidences]
RemoteRepoSuggestion == [repo : Urls, ref : {None, "v1"}, confidence : Confidences]

\* ------------------------------------------------------------ pure helpers
RECURSIVE GCD(_, _)
GCD(a, b) == IF b = 0 THEN a ELSE GCD(b, a % b)

\* Python's true division of two small non-negative ints, as the reduced
\* fraction it denotes; 0.0 is <<0, 1>>.
TrueDiv(c, t) == IF c = 0 THEN <<0, 1>> ELSE <<c \div GCD(c, t), t \div GCD(c, t)>>
Float0 == <<0, 1>>

\* FileMatchingStatsMixin + UpstreamMatchingMixin defaults, with the identifying
\* field of RemoteArchiveResult / RemoteRepoResult in `remote`.  Three history
\* fields that are not serialised: hashsum, the content hash the matcher
\* computed for the candidate (None: none computed); nonmatching, how many of
\* the files the file matcher recorded for it are not MATCHING; compared,
\* whether the comparison and its statistics ran to their end.
NewResult(remote) ==
    [remote |-> remote, accessible |-> FALSE, matched |-> FALSE,
     files_total |-> 0, files_matched |-> 0, files_different |-> 0,
     files_no_counterpart |-> 0,
     files_matched_ratio |-> Float0, files_different_ratio |-> Float0,
     files_no_counterpart_ratio |-> Float0,
     hashsum |-> None, nonmatching |-> 0, compared |-> FALSE]

B2I(b) == IF b THEN 1 ELSE 0

\* One iteration of the loop of _collect_file_match_statistics.
CountFile(r, state) ==
    [r EXCEPT !.files_total = @ + 1,
              !.files_matched = @ + B2I(state = MATCHING),
              !.files_different = @ + B2I(state = DIFFERENT),
              !.files_no_counterpart = @ + B2I(state = NO_COUNTERPART)]

\* The loop over state_dict.items(); diffs is the PVT_FILE_MATCHER_DIFFS_PATH
\* environment: "unset", "writable", or "unwritable" (mkdir raises at the first
\* DIFFERENT file).  Returns the object and whether the loop raised.
RECURSIVE CollectLoop(_, _, _)
CollectLoop(r, sd, diffs) ==
    IF sd = <<>> THEN [obj |-> r, raised |-> FALSE]
    ELSE LET r1 == CountFile(r, Head(sd))
         IN IF Head(sd) = DIFFERENT /\ diffs = "unwritable"
            THEN [obj |-> r1, raised |-> TRUE]
            ELSE CollectLoop(r1, Tail(sd), diffs)

Ratios(r) ==
    IF r.files_total > 0
    THEN [r EXCEPT !.files_matched_ratio = TrueDiv(r.files_matched, r.files_total),
                   !.files_different_ratio = TrueDiv(r.files_different, r.files_total),
                   !.files_no_counterpart_ratio =
                       TrueDiv(r.files_no_counterpart, r.files_total)]
    ELSE [r EXCEPT !.files_matched_ratio = Float0,
                   !.files_different_ratio = Float0,
                   !.files_no_counterpart_ratio = Float0]

collect_file_match_statistics(r, sd, diffs) ==
    LET l == CollectLoop(r, sd, diffs)
    IN IF l.raised THEN l ELSE [obj |-> Ratios(l.obj), raised |-> FALSE]

\* A variant that takes every comparison for a match.
left_is_matching_always(sd) == TRUE

left_is_matching(sd) == \A k \in 1..Len(sd) : sd[k] = MATCHING

NonMatching(sd) == Cardinality({k \in 1..Len(sd) : sd[k] # MATCHING})

\* sorted(suggestions, key=lambda x: x.confidence, reverse=True), as the list of
\* the original positions: a stable sort, so equal keys keep their order also
\* with reverse=True.
RECURSIVE InsertByConfidence(_, _, _)
InsertByConfidence(s, k, order) ==
    IF order = <<>> THEN <<k>>
    ELSE IF s[Head(order)].confidence >= s[k].confidence
         THEN <<Head(order)>> \o InsertByConfidence(s, k, Tail(order))
         ELSE <<k>> \o order

RECURSIVE SortPrefix(_, _)
SortPrefix(s, n) ==
    IF n = 0 THEN <<>> ELSE InsertByConfidence(s, n, SortPrefix(s, n - 1))

\* A variant that does not sort: the suggestions in the order of the list.
unsorted(s) == [k \in 1..Len(s) |-> k]

sorted_by_confidence(s) == SortPrefix(s, Len(s))


\* ------------------------------------------------------------------- state
VARIABLES
    pc,                 \* control point of the running entry point
    api,                \* the entry point that was called
    pkg,                \* number of local archives inside the source package
    sp,                 \* RPMSourcepackage: which of _srpm_file_path__, _spec,
                        \* _package_source_path__ are set (not None)
    suggested_archives, \* argument of match_remote_archives
    suggested_repos,    \* argument of match_remote_repos
    loop,               \* locals of the running match operation
    matched_archives,   \* its matched_archives dict (archive -> result list)
    archive_hashes,     \* its archive_hashes dict: the archives it has hashed
    attempts,           \* history: per archive, the candidates it pre-recorded
    ares,               \* PackageRemoteArchivesResult returned, if any
    rres,               \* PackageRemoteReposResult returned, if any
    validation          \* PackageValidationResult returned, if any

\* The operation cache (operation_cache.py): one OperationCache object per
\* worker process, one cache directory shared by all of them.
VARIABLES
    cache_directory,    \* OperationCache._cache_directory (None: caching is off)
    write_only,         \* OperationCache._write_only
    files,              \* the cache directory: cache path -> file, None if absent
    call,               \* per worker: locals of its running OperationCache.call
    stats,              \* per worker: the counters of its OperationCache
    errors              \* history: per worker, the cache errors that occurred

matchvars == <<pc, api, pkg, sp, suggested_archives, suggested_repos, loop,
               matched_archives, archive_hashes, attempts, ares, rres, validation>>
cachevars == <<cache_directory, write_only, files, call, stats, errors>>

\* The fleet validator (validate_system_packages).
VARIABLES
    fleet,              \* its arguments, control point and return value
    combined_packages,  \* the list of packages handed to the pool
    tasks,              \* per package of the list: what its worker did
    package_data,       \* the dict package name -> result (here: its valid)
    system_report       \* the report file written, if any

fleetvars == <<fleet, combined_packages, tasks, package_data, system_report>>

\* The archive suggester (RemotePackageArchivesSuggester).
VARIABLES
    suggester,          \* its arguments, the accessible URLs, its control point
    archive_suggestions, \* suggestion_result.suggestions: per archive, the spec_source list
    unused_spec_sources \* suggestion_result.unused_spec_sources

suggestvars == <<suggester, archive_suggestions, unused_spec_sources>>

\* The helpers of utils.py and of the matching and version modules, each on
\* its own.
VARIABLES
    unpack,             \* secure_unpack_archive: the archive, the files written, the result
    extract,            \* extract_version_from_archive_name: the name and the outcome
    matcher,            \* match_files on two archives: the FileMatcher and its result
    probe,              \* _is_git_repo: its lru_cache and the probes made so far
    keys,               \* generate_hash_metadata: two calls and what they are stored under
    oc,                 \* the OperationCache singleton of one process and its directories
    order               \* an archive suggester and a repo suggester whose methods are called

toolvars == <<unpack, extract, matcher, probe, keys, oc, order>>

\* What the package operations, the cache, the fleet validator and the
\* suggester leave alone.
others == <<cachevars, fleetvars, suggestvars, toolvars>>
beside_cache == <<matchvars, fleetvars, suggestvars, toolvars>>
beside_fleet == <<matchvars, cachevars, suggestvars, toolvars>>
beside_suggester == <<matchvars, cachevars, fleetvars, toolvars>>
beside_tools == <<matchvars, cachevars, fleetvars, suggestvars>>
vars == <<matchvars, cachevars, fleetvars, suggestvars, toolvars>>

NoResult == [returned |-> FALSE]
NoDict == [keys |-> {}, lists |-> <<>>]
NoLoop == [a |-> 0, order |-> <<>>, i |-> 0, seen_urls |-> {}, seen_hashes |-> {}]

\* Suggestion dictionaries for n local archives holding at most b suggestions in
\* all: the sequence of the per-archive lists.
RECURSIVE Lists(_, _, _)
Lists(S, n, b) ==
    IF n = 0 THEN {<<>>}
    ELSE UNION {{Append(rest, l) : rest \in Lists(S, n - 1, b - k), l \in [1..k -> S]}
                : k \in 0..b}

\* A dictionary may lack the key of an archive it has no suggestion for.
Dicts(S, n, b) ==
    UNION {{[keys |-> K, lists |-> l] :
              K \in {K \in SUBSET (1..n) : \A a \in 1..n : a \notin K => l[a] = <<>>}}
           : l \in Lists(S, n, b)}

\* ---------------------------------------------- RPMSourcepackage: initialise
InitEnv == [provider : {"ok", "unavailable", "error"},
            install_build_deps : {"no", "try", "yes"},
            deps_installed : BOOLEAN,
            prepared : BOOLEAN,       \* prepare_rpmbuild_source returned
            spec_files : 0..2,        \* *.spec files in the raw extracted content
            parsed : BOOLEAN]         \* RPMSpec(...) did not raise RPMSpecError

\* _initialize_package: [ok: its return value, sp: the fields afterwards,
\* raised: an exception left it].  sp.failed is history: the steps that failed
\* (a build-dependency failure that the installation decision lets pass is
\* not recorded).
initialize_package(s, e) ==
    IF s.spec THEN [ok |-> TRUE, sp |-> s, raised |-> FALSE]
    ELSE IF e.provider = "error"
         \* download_and_extract_source_package raises RuntimeError
         THEN [ok |-> FALSE, sp |-> [s EXCEPT !.failed = @ \cup {"provider_raised"}],
               raised |-> TRUE]
    ELSE IF e.provider = "unavailable"
         THEN [ok |-> FALSE,
               sp |-> [s EXCEPT !.srpm_file_path = FALSE, !.failed = @ \cup {"provider"}],
               raised |-> FALSE]
    ELSE LET s1 == [s EXCEPT !.srpm_file_path = TRUE]
         IN IF e.install_build_deps = "yes" /\ ~e.deps_installed
            THEN [ok |-> FALSE, sp |-> [s1 EXCEPT !.failed = @ \cup {"deps"}],
                  raised |-> FALSE]
            ELSE LET s2 == [s1 EXCEPT !.package_source_path = @ \/ e.prepared,
                                      !.failed = IF e.prepared THEN @
                                                 ELSE @ \cup {"regeneration"}]
                 IN IF ~e.prepared /\ e.spec_files # 1
                    \* get_single_spec_file raises ValueError in the except branch
                    THEN [ok |-> FALSE, sp |-> s2, raised |-> TRUE]
                    ELSE IF e.parsed
                    THEN [ok |-> TRUE, sp |-> [s2 EXCEPT !.spec = TRUE],
                          raised |-> FALSE]
                    ELSE [ok |-> FALSE,
                          sp |-> [s2 EXCEPT !.spec = FALSE, !.failed = @ \cup {"parse"}],
                          raised |-> FALSE]

\* What one call of _initialize_package on adapter s can come to.
Initialised(s) == {initialize_package(s, e) : e \in InitEnv}

\* The result object of a match operation.  attempts is history, not a field.
PackageResult(matching, results, hashes, s, att) ==
    [returned |-> TRUE, matching |-> matching, results |-> results,
     archive_hashes |-> hashes,
     srpm_available |-> s.srpm_file_path, spec_valid |-> s.spec,
     source_extractable |-> s.package_source_path, attempts |-> att]

any_matched(list) == \E k \in 1..Len(list) : list[k].matched

\* A variant that is content with one local archive that has a matched entry.
compute_matching_some(m) == \E a \in DOMAIN m : any_matched(m[a])

\* The loop that closes both match operations.
compute_matching(m) == \A a \in DOMAIN m : any_matched(m[a])

\* Where a match operation returns to.
AfterArchives == IF api = "validate_single_package" THEN "v_suggest_repos" ELSE "done"
AfterRepos == IF api = "validate_single_package" THEN "v_upstream" ELSE "done"

\* A variant that hashes only the local archives it has suggestions for.
record_hash_if_suggested(hashes, a, suggested) ==
    IF suggested THEN hashes \cup {a} ELSE hashes

\* archive_hashes[local_archive_basename] = hash256sum(...), the statement
\* before the test for suggestions; suggested is what that test will find.
record_hash(hashes, a, suggested) == hashes \cup {a}

\* The deduplication tests: `x in seen_remote_urls` / `x in seen_remote_repos`
\* and `x in seen_remote_hashes` / `x in seen_repo_tree_hashes`.
url_seen(u, seen) == u \in seen

\* A variant without content-level deduplication.
content_seen_never(h, seen) == FALSE

content_seen(h, seen) == h \in seen

\* A variant that takes the entry of a failed candidate out of the list.
failed_step_drops(r, seen) == [obj |-> r, keep |-> FALSE, seen |-> seen]

\* `continue` after a step of a pre-recorded candidate failed: the entry stays
\* in the list as it is.
failed_step(r, seen) == [obj |-> r, keep |-> TRUE, seen |-> seen]

\* ------------------------------------------------- match_remote_archives
ArchiveEnv == [download : BOOLEAN, hashsum : Hashes, unpack : BOOLEAN,
               match_left : BOOLEAN, state_dict : StateDicts,
               diffs : {"unset", "writable", "unwritable"}]

\* Lines 354-429 for one pre-recorded candidate r: the object afterwards,
\* whether it stays in the list, and the seen hash sums.
archive_attempt(r, seen, e) ==
    IF ~e.download THEN failed_step(r, seen)
    ELSE LET r1 == [r EXCEPT !.accessible = TRUE, !.hashsum = e.hashsum]
         IN IF content_seen(e.hashsum, seen)
            THEN [obj |-> r1, keep |-> FALSE, seen |-> seen]
            ELSE LET seen1 == seen \cup {e.hashsum}
                 IN IF ~e.unpack THEN failed_step(r1, seen1)
                    ELSE IF ~e.match_left
                    THEN failed_step([r1 EXCEPT !.nonmatching = NonMatching(e.state_dict)],
                                     seen1)
                    ELSE LET c == collect_file_match_statistics(r1, e.state_dict, e.diffs)
                             r2 == [c.obj EXCEPT !.nonmatching = NonMatching(e.state_dict),
                                                 !.compared = ~c.raised]
                         IN [obj |-> [r2 EXCEPT !.matched =
                                         ~c.raised /\ left_is_matching(e.state_dict)],
                             keep |-> TRUE, seen |-> seen1]

\* match_package_archives with a suggestions file: the adapter is fresh.
CallMatchRemoteArchives ==
    /\ UNCHANGED others
    /\ pc = "start"
    /\ \E d \in Dicts(RemoteArchiveSuggestion, pkg, MaxSugg) : suggested_archives' = d
    /\ api' = "match_remote_archives"
    /\ pc' = "a_begin"
    /\ UNCHANGED <<pkg, sp, suggested_repos, loop, matched_archives, archive_hashes, attempts,
                   ares, rres, validation>>

\* Lines 255-286.
A_Begin ==
    /\ UNCHANGED others
    /\ pc = "a_begin"
    /\ \E r \in Initialised(sp) :
            /\ sp' = r.sp
            /\ IF r.raised
               THEN /\ pc' = "raised"
                    /\ UNCHANGED <<ares, loop, matched_archives, archive_hashes, attempts>>
               ELSE IF ~r.ok
               THEN /\ ares' = PackageResult(FALSE, <<>>, {}, r.sp, <<>>)
                    /\ pc' = AfterArchives
                    /\ UNCHANGED <<loop, matched_archives, archive_hashes, attempts>>
               ELSE IF pkg = 0
               THEN /\ ares' = PackageResult(TRUE, <<>>, {}, r.sp, <<>>)
                    /\ pc' = AfterArchives
                    /\ UNCHANGED <<loop, matched_archives, archive_hashes, attempts>>
               ELSE /\ matched_archives' = <<>>
                    /\ archive_hashes' = {}
                    /\ attempts' = <<>>
                    /\ loop' = [NoLoop EXCEPT !.a = 1]
                    /\ pc' = "a_archive"
                    /\ UNCHANGED ares
    /\ UNCHANGED <<api, pkg, suggested_archives, suggested_repos, rres, validation>>

\* Lines 293-317: the head of the loop over the local archives.
A_Archive ==
    /\ UNCHANGED others
    /\ pc = "a_archive"
    /\ loop.a <= pkg
    /\ matched_archives' = matched_archives @@ (loop.a :> <<>>)
    /\ archive_hashes' = record_hash(archive_hashes, loop.a, loop.a \in suggested_archives.keys)
    /\ attempts' = attempts @@ (loop.a :> <<>>)
    /\ IF loop.a \notin suggested_archives.keys
       THEN /\ loop' = [NoLoop EXCEPT !.a = loop.a + 1]
            /\ pc' = "a_archive"
       ELSE /\ loop' = [NoLoop EXCEPT
                           !.a = loop.a,
                           !.order = sorted_by_confidence(suggested_archives.lists[loop.a]),
                           !.i = 1]
            /\ pc' = "a_candidate"
    /\ UNCHANGED <<api, pkg, sp, suggested_archives, suggested_repos, ares, rres,
                   validation>>

\* Lines 319-429: one iteration of the loop over the sorted suggestions.
A_Candidate ==
    /\ UNCHANGED others
    /\ pc = "a_candidate"
    /\ loop.i <= Len(loop.order)
    /\ LET a == loop.a
           k == loop.order[loop.i]
           s == suggested_archives.lists[a][k]
       IN IF s.remote_archive = None \/ url_seen(s.remote_archive, loop.seen_urls)
          THEN /\ loop' = [loop EXCEPT !.i = @ + 1]
               /\ pc' = "a_candidate"
               /\ UNCHANGED <<matched_archives, attempts>>
          ELSE \/ \E e \in ArchiveEnv :
                    LET t == archive_attempt(NewResult(s.remote_archive),
                                             loop.seen_hashes, e)
                    IN /\ matched_archives' =
                            [matched_archives EXCEPT
                               ![a] = IF t.keep THEN Append(@, t.obj) ELSE @]
                       /\ attempts' = [attempts EXCEPT
                               ![a] = Append(@, [sugg |-> k, dropped |-> ~t.keep,
                                                  hashsum |-> t.obj.hashsum])]
                       /\ loop' = [loop EXCEPT
                               !.i = @ + 1,
                               !.seen_urls = @ \cup {s.remote_archive},
                               !.seen_hashes = t.seen]
                       /\ pc' = "a_candidate"
               \/ \* hash256sum or os.makedirs raises: nothing catches it here
                  /\ pc' = "raised"
                  /\ UNCHANGED <<loop, matched_archives, attempts>>
    /\ UNCHANGED <<api, pkg, sp, suggested_archives, suggested_repos, ares, rres,
                   validation, archive_hashes>>

\* The suggestions of this archive are used up: on to the next archive.
A_NextArchive ==
    /\ UNCHANGED others
    /\ pc = "a_candidate"
    /\ loop.i > Len(loop.order)
    /\ loop' = [NoLoop EXCEPT !.a = loop.a + 1]
    /\ pc' = "a_archive"
    /\ UNCHANGED <<api, pkg, sp, suggested_archives, suggested_repos,
                   matched_archives, archive_hashes, attempts, ares, rres, validation>>

\* Lines 431-446.
A_Return ==
    /\ UNCHANGED others
    /\ pc = "a_archive"
    /\ loop.a > pkg
    /\ ares' = PackageResult(compute_matching(matched_archives), matched_archives,
                             archive_hashes, sp, attempts)
    /\ pc' = AfterArchives
    /\ loop' = NoLoop
    /\ UNCHANGED <<api, pkg, sp, suggested_archives, suggested_repos,
                   matched_archives, archive_hashes, attempts, rres, validation>>

\* --------------------------------------------------- match_remote_repos
RepoEnv == [clone : BOOLEAN, checkout : BOOLEAN, tree_hash : Hashes \cup {None},
            match_left : BOOLEAN, state_dict : StateDicts,
            diffs : {"unset", "writable", "unwritable"}]

\* Lines 589-699 for one pre-recorded candidate r.  get_git_tree_hash returns
\* None when git cannot name the tree: no deduplication then.  The autotools
\* and changelog runners swallow their exceptions and do not touch r's
\* matching fields.
repo_attempt(r, seen, e) ==
    IF ~e.clone \/ ~e.checkout THEN failed_step(r, seen)
    ELSE LET r1 == [r EXCEPT !.accessible = TRUE, !.hashsum = e.tree_hash]
         IN IF e.tree_hash # None /\ content_seen(e.tree_hash, seen)
            THEN [obj |-> r1, keep |-> FALSE, seen |-> seen]
            ELSE LET seen1 == IF e.tree_hash # None THEN seen \cup {e.tree_hash} ELSE seen
                 IN IF ~e.match_left
                    THEN failed_step([r1 EXCEPT !.nonmatching = NonMatching(e.state_dict)],
                                     seen1)
                    ELSE LET c == collect_file_match_statistics(r1, e.state_dict, e.diffs)
                             r2 == [c.obj EXCEPT !.nonmatching = NonMatching(e.state_dict),
                                                 !.compared = ~c.raised]
                         IN [obj |-> [r2 EXCEPT !.matched =
                                         ~c.raised /\ left_is_matching(e.state_dict)],
                             keep |-> TRUE, seen |-> seen1]

\* match_package_repos with a suggestions file: the adapter is fresh.
CallMatchRemoteRepos ==
    /\ UNCHANGED others
    /\ pc = "start"
    /\ \E d \in Dicts(RemoteRepoSuggestion, pkg, MaxSugg) : suggested_repos' = d
    /\ api' = "match_remote_repos"
    /\ pc' = "r_begin"
    /\ UNCHANGED <<pkg, sp, suggested_archives, loop, matched_archives, archive_hashes, attempts,
                   ares, rres, validation>>

\* Lines 473-500.
R_Begin ==
    /\ UNCHANGED others
    /\ pc = "r_begin"
    /\ \E r \in Initialised(sp) :
            /\ sp' = r.sp
            /\ IF r.raised
               THEN /\ pc' = "raised"
                    /\ UNCHANGED <<rres, loop, matched_archives, archive_hashes, attempts>>
               ELSE IF ~r.ok
               THEN /\ rres' = PackageResult(FALSE, <<>>, {}, r.sp, <<>>)
                    /\ pc' = AfterRepos
                    /\ UNCHANGED <<loop, matched_archives, archive_hashes, attempts>>
               ELSE IF pkg = 0
               THEN /\ rres' = PackageResult(TRUE, <<>>, {}, r.sp, <<>>)
                    /\ pc' = AfterRepos
                    /\ UNCHANGED <<loop, matched_archives, archive_hashes, attempts>>
               ELSE /\ matched_archives' = <<>>
                    /\ archive_hashes' = {}
                    /\ attempts' = <<>>
                    /\ loop' = [NoLoop EXCEPT !.a = 1]
                    /\ pc' = "r_archive"
                    /\ UNCHANGED rres
    /\ UNCHANGED <<api, pkg, suggested_archives, suggested_repos, ares, validation>>

\* Lines 510-553: the head of the loop over the local archives; the local
\* archive is unpacked once, before its suggestions are sorted.
R_Archive ==
    /\ UNCHANGED others
    /\ pc = "r_archive"
    /\ loop.a <= pkg
    /\ matched_archives' = matched_archives @@ (loop.a :> <<>>)
    /\ archive_hashes' = record_hash(archive_hashes, loop.a,
                                  /\ loop.a \in suggested_repos.keys
                                  /\ suggested_repos.lists[loop.a] # <<>>)
    /\ attempts' = attempts @@ (loop.a :> <<>>)
    /\ IF loop.a \notin suggested_repos.keys \/ suggested_repos.lists[loop.a] = <<>>
       THEN /\ loop' = [NoLoop EXCEPT !.a = loop.a + 1]
            /\ pc' = "r_archive"
       ELSE \E unpacked \in BOOLEAN :
              IF ~unpacked
              THEN /\ loop' = [NoLoop EXCEPT !.a = loop.a + 1]
                   /\ pc' = "r_archive"
              ELSE /\ loop' = [NoLoop EXCEPT
                                 !.a = loop.a,
                                 !.order = sorted_by_confidence(suggested_repos.lists[loop.a]),
                                 !.i = 1]
                   /\ pc' = "r_candidate"
    /\ UNCHANGED <<api, pkg, sp, suggested_archives, suggested_repos, ares, rres,
                   validation>>

\* Lines 564-699: one iteration of the loop over the sorted suggestions.
R_Candidate ==
    /\ UNCHANGED others
    /\ pc = "r_candidate"
    /\ loop.i <= Len(loop.order)
    /\ LET a == loop.a
           k == loop.order[loop.i]
           s == suggested_repos.lists[a][k]
       IN IF s.ref = None \/ url_seen(s.repo, loop.seen_urls)
          THEN /\ loop' = [loop EXCEPT !.i = @ + 1]
               /\ pc' = "r_candidate"
               /\ UNCHANGED <<matched_archives, attempts>>
          ELSE \/ \E e \in RepoEnv :
                    LET t == repo_attempt(NewResult(s.repo), loop.seen_hashes, e)
                    IN /\ matched_archives' =
                            [matched_archives EXCEPT
                               ![a] = IF t.keep THEN Append(@, t.obj) ELSE @]
                       /\ attempts' = [attempts EXCEPT
                               ![a] = Append(@, [sugg |-> k, dropped |-> ~t.keep,
                                                  hashsum |-> t.obj.hashsum])]
                       /\ loop' = [loop EXCEPT
                               !.i = @ + 1,
                               !.seen_urls = @ \cup {s.repo},
                               !.seen_hashes = t.seen]
                       /\ pc' = "r_candidate"
               \/ \* clone_git_repo catches CalledProcessError only
                  /\ pc' = "raised"
                  /\ UNCHANGED <<loop, matched_archives, attempts>>
    /\ UNCHANGED <<api, pkg, sp, suggested_archives, suggested_repos, ares, rres,
                   validation, archive_hashes>>

\* The suggestions of this archive are used up: on to the next archive.
R_NextArchive ==
    /\ UNCHANGED others
    /\ pc = "r_candidate"
    /\ loop.i > Len(loop.order)
    /\ loop' = [NoLoop EXCEPT !.a = loop.a + 1]
    /\ pc' = "r_archive"
    /\ UNCHANGED <<api, pkg, sp, suggested_archives, suggested_repos,
                   matched_archives, archive_hashes, attempts, ares, rres, validation>>

\* Lines 701-722.
R_Return ==
    /\ UNCHANGED others
    /\ pc = "r_archive"
    /\ loop.a > pkg
    /\ rres' = PackageResult(compute_matching(matched_archives), matched_archives,
                             archive_hashes, sp, attempts)
    /\ pc' = AfterRepos
    /\ loop' = NoLoop
    /\ UNCHANGED <<api, pkg, sp, suggested_archives, suggested_repos,
                   matched_archives, archive_hashes, attempts, ares, validation>>

\* ------------------------------------------------ validate_single_package
FreshAdapter ==
    [srpm_file_path |-> FALSE, spec |-> FALSE, package_source_path |-> FALSE,
     failed |-> {}]

\* The dictionaries a suggester hands out: a key for every local archive, or no
\* key at all.
FullDicts(S, n, b) == {d \in Dicts(S, n, b) : d.keys = 1..n}
EmptyDict(n) == [keys |-> {}, lists |-> [a \in 1..n |-> <<>>]]

RECURSIVE Total(_, _)
Total(lists, n) == IF n = 0 THEN 0 ELSE Len(lists[n]) + Total(lists, n - 1)

suggestion_url(s) == IF "repo" \in DOMAIN s THEN s.repo ELSE s.remote_archive

\* A variant that does not sort: the first listed suggestion with a matched entry.
first_listed(entries, suggestions) ==
    LET matching == {entries[k].remote : k \in {k \in 1..Len(entries) : entries[k].matched}}
        filtered == SelectSeq(suggestions, LAMBDA x : suggestion_url(x) \in matching)
    IN IF filtered = <<>> THEN None ELSE suggestion_url(filtered[1])

\* Lines 265-281 / 283-299 for one local archive: the URL of the first of the
\* suggestions, sorted by descending confidence, whose URL has a matched entry.
choose_upstream(entries, suggestions) ==
    LET matching == {entries[k].remote : k \in {k \in 1..Len(entries) : entries[k].matched}}
        filtered == SelectSeq(suggestions, LAMBDA x : suggestion_url(x) \in matching)
    IN IF filtered = <<>> THEN None
       ELSE suggestion_url(filtered[sorted_by_confidence(filtered)[1]])

\* A variant that is content with one matching side.
valid_either(a, r) == a \/ r

\* valid=matched_remote_archives.matching and matched_remote_repos.matching
valid_result(a, r) == a /\ r

CallValidateSinglePackage ==
    /\ UNCHANGED others
    /\ pc = "start"
    /\ api' = "validate_single_package"
    /\ pc' = "v_get_name"
    /\ UNCHANGED <<pkg, sp, suggested_archives, suggested_repos, loop,
                   matched_archives, archive_hashes, attempts, ares, rres, validation>>

\* Lines 237-239: get_name() initialises the adapter; None raises ValueError.
V_GetName ==
    /\ UNCHANGED others
    /\ pc = "v_get_name"
    /\ \E r \in Initialised(sp) :
            /\ sp' = r.sp
            /\ pc' = IF r.raised \/ ~r.ok THEN "raised" ELSE "v_suggest_archives"
    /\ UNCHANGED <<api, pkg, suggested_archives, suggested_repos, loop,
                   matched_archives, archive_hashes, attempts, ares, rres, validation>>

\* Lines 244-247: get_remote_archives_for_package, on an adapter of its own.
\* It raises when that adapter cannot name the source package; it hands out no
\* key when the package has no local archive or the spec no archive source.
V_SuggestArchives ==
    /\ UNCHANGED others
    /\ pc = "v_suggest_archives"
    /\ \E r \in Initialised(FreshAdapter) :
            IF r.raised \/ ~r.ok
            THEN /\ pc' = "raised"
                 /\ UNCHANGED suggested_archives
            ELSE /\ pc' = "a_begin"
                 /\ \/ suggested_archives' = EmptyDict(pkg)
                    \/ /\ pkg > 0
                       /\ \E d \in FullDicts(RemoteArchiveSuggestion, pkg, MaxSugg) :
                            suggested_archives' = d
    /\ UNCHANGED <<api, pkg, sp, suggested_repos, loop, matched_archives, archive_hashes, attempts,
                   ares, rres, validation>>

\* Lines 254-257: get_repos_for_package, on an adapter of its own.  A failed
\* initialisation there gives no name and no local archives: an empty result.
V_SuggestRepos ==
    /\ UNCHANGED others
    /\ pc = "v_suggest_repos"
    /\ \E r \in Initialised(FreshAdapter) :
         LET left == MaxSugg - Total(suggested_archives.lists, pkg)
         IN IF r.raised
            THEN /\ pc' = "raised"
                 /\ UNCHANGED suggested_repos
            ELSE /\ pc' = "r_begin"
                 /\ IF ~r.ok \/ pkg = 0
                    THEN suggested_repos' = EmptyDict(pkg)
                    ELSE \E d \in FullDicts(RemoteRepoSuggestion, pkg, left) :
                            suggested_repos' = d
    /\ UNCHANGED <<api, pkg, sp, suggested_archives, loop, matched_archives, archive_hashes, attempts,
                   ares, rres, validation>>

\* Lines 265-321: the upstream choices and the result.  suggestions[archive]
\* raises KeyError for a local archive the suggestions have no key for.
V_Return ==
    /\ UNCHANGED others
    /\ pc = "v_upstream"
    /\ IF \/ \E a \in ares.archive_hashes : a \notin suggested_archives.keys
          \/ \E a \in rres.archive_hashes : a \notin suggested_repos.keys
       THEN /\ pc' = "raised"
            /\ UNCHANGED validation
       ELSE /\ pc' = "done"
            /\ validation' =
                 [returned |-> TRUE,
                  archive_hashes |-> rres.archive_hashes,
                  upstream_archives |->
                      [a \in ares.archive_hashes |->
                          choose_upstream(ares.results[a], suggested_archives.lists[a])],
                  upstream_code_repos |->
                      [a \in rres.archive_hashes |->
                          choose_upstream(rres.results[a], suggested_repos.lists[a])],
                  valid_archives |-> ares.matching,
                  valid_repos |-> rres.matching,
                  valid |-> valid_result(ares.matching, rres.matching)]
    /\ UNCHANGED <<api, pkg, sp, suggested_archives, suggested_repos, loop,
                   matched_archives, archive_hashes, attempts, ares, rres>>

\* ------------------------------------------------------- fleet validation
\* validate_system_packages: the package names of the host and of the
\* --extra-package options, and the largest cap and number of options tried.
SystemNames == {"a", "b"}
ExtraNames == {"b", "c"}
MaxCap == 2
MaxExtra == 2

\* Optional[int]: <<>> is None, <<n>> is n.
Optional(S) == {<<>>} \cup {<<x>> : x \in S}

\* All orders in which the elements of a set can be listed.
RECURSIVE Orders(_)
Orders(S) ==
    IF S = {} THEN {<<>>}
    ELSE UNION {{<<x>> \o rest : rest \in Orders(S \ {x})} : x \in S}
Range(s) == {s[k] : k \in 1..Len(s)}

\* list.sort(key=lambda x: x not in extra_set): stable, False sorts before True.
unsorted_packages(packages, extra_set) == packages
sort_extra_first(packages, extra_set) ==
    SelectSeq(packages, LAMBDA x : x \in extra_set)
        \o SelectSeq(packages, LAMBDA x : x \notin extra_set)

\* The lists combined_packages can be before the cap: with extra packages the
\* union in some set order, sorted; else the system packages; then the part
\* after the first len(extra_set) elements in a random order.
Combined(system_packages, extra_packages) ==
    LET extra_set == Range(extra_packages)
        listed == IF extra_packages # <<>>
                  THEN {sort_extra_first(l, extra_set) :
                            l \in Orders(extra_set \cup Range(system_packages))}
                  ELSE {system_packages}
    IN  UNION {{SubSeq(l, 1, Cardinality(extra_set)) \o sample :
                    sample \in Orders(Range(SubSeq(l, Cardinality(extra_set) + 1, Len(l))))} :
               l \in listed}

\* combined_packages[:nr_packages_to_check]
Capped(packages, nr_packages_to_check) ==
    IF nr_packages_to_check = <<>> THEN packages
    ELSE SubSeq(packages, 1, IF nr_packages_to_check[1] < Len(packages)
                             THEN nr_packages_to_check[1] ELSE Len(packages))

NotRun == [done |-> FALSE, raised |-> FALSE, valid |-> FALSE]
Raised == [done |-> TRUE, raised |-> TRUE, valid |-> FALSE]
Validated(valid) == [done |-> TRUE, raised |-> FALSE, valid |-> valid]
NoReport == [written |-> FALSE, report |-> <<>>]

\* The lines before the pool: combine, shuffle and cap the packages.
F_Start ==
    /\ pc = "fleet"
    /\ fleet.pc = "start"
    /\ \E l \in Combined(fleet.system_packages, fleet.extra_packages) :
        combined_packages' = Capped(l, fleet.nr_packages_to_check)
    /\ tasks' = [k \in 1..Len(combined_packages') |-> NotRun]
    /\ fleet' = [fleet EXCEPT !.pc = "pool"]
    /\ UNCHANGED <<package_data, system_report>>
    /\ UNCHANGED beside_fleet

\* A pool worker runs validate_single_package on one package: it returns a
\* PackageValidationResult or raises.
F_Worker ==
    /\ pc = "fleet"
    /\ fleet.pc = "pool"
    /\ \E k \in DOMAIN tasks, outcome \in {Raised, Validated(TRUE), Validated(FALSE)} :
        /\ ~tasks[k].done
        /\ tasks' = [tasks EXCEPT ![k] = outcome]
    /\ UNCHANGED <<fleet, combined_packages, package_data, system_report>>
    /\ UNCHANGED beside_fleet

\* pool.map returns the list of all results, or raises what a worker raised
\* once all tasks are done; the loop over the results fills package_data;
\* except Exception marks the run invalid; then the report is written.
map_results(done) ==
    IF \E k \in DOMAIN done : done[k].raised THEN <<>> ELSE done
PackageData(packages, results) ==
    [p \in {packages[k] : k \in DOMAIN results} |->
        results[CHOOSE k \in DOMAIN results : packages[k] = p].valid]
F_Finish ==
    /\ pc = "fleet"
    /\ fleet.pc = "pool"
    /\ \A k \in DOMAIN tasks : tasks[k].done
    /\ LET exception == \E k \in DOMAIN tasks : tasks[k].raised
           results == map_results(tasks)
           data == PackageData(combined_packages, results)
       IN
       /\ package_data' = data
       /\ system_report' = IF fleet.output_json_path
                           THEN [written |-> TRUE, report |-> data]
                           ELSE NoReport
       /\ fleet' = [fleet EXCEPT
                !.pc = "returned",
                !.all_packages_valid =
                    IF exception THEN FALSE
                    ELSE \A p \in DOMAIN data : data[p]]
    /\ UNCHANGED <<combined_packages, tasks>>
    /\ UNCHANGED beside_fleet

FleetOff ==
    /\ fleet = [pc |-> "off", system_packages |-> <<>>, extra_packages |-> <<>>,
                nr_packages_to_check |-> <<>>, output_json_path |-> FALSE,
                all_packages_valid |-> TRUE]
    /\ combined_packages = <<>>
    /\ tasks = <<>>
    /\ package_data = [p \in {} |-> TRUE]
    /\ system_report = NoReport

\* ------------------------------------------------------- archive suggester
\* RemotePackageArchivesSuggester: the local archives and the Source stanzas of
\* a package.  A Source stanza is told by its URL scheme ("none": a bare file
\* name), by the archive whose name and version it holds, by whether it holds
\* that archive's basename as one piece, and by whether it ends in a #fragment;
\* spec_source strings are lists of stanzas joined by blanks.
MaxSources == 2
ArchiveNames == {"A", "B"}
SpecSources ==
    {x \in [scheme : {"https", "ftp", "none"}, archive : ArchiveNames, whole : BOOLEAN,
            fragment : BOOLEAN] :
        /\ x.fragment => x.scheme = "https"
        /\ x.scheme = "none" => x.whole}
BareName(a) == [scheme |-> "none", archive |-> a, whole |-> TRUE, fragment |-> FALSE]
DerivedUrls == {"https_for_ftp", "known_url", "moved", "subdomain"}

\* The string of one stanza, " ".join of a list of stanzas, and None.
StanzaString(x) == <<x>>
RECURSIVE JoinBlank(_)
JoinBlank(stanzas) ==
    IF stanzas = <<>> THEN <<>>
    ELSE StanzaString(Head(stanzas)) \o JoinBlank(Tail(stanzas))
NoSpecSource == <<>>
Suggestion(method, spec_source) == [suggested_by |-> method, spec_source |-> spec_source]

\* is_url_accessible: of a stanza's own URL, and of the URLs a method derives.
is_url_accessible(kind, x, accessible) ==
    IF kind = "source" THEN x.scheme \in accessible.sources ELSE kind \in accessible.derived

\* [x for x in spec_sources if local_archive_basename in x]
matching_spec_sources(a, spec_sources) ==
    SelectSeq(spec_sources, LAMBDA x : x.archive = a /\ x.whole)

\* One suggestion for each stanza of the list whose URL of the kind is accessible.
RECURSIVE ForEachAccessible(_, _, _, _)
ForEachAccessible(method, stanzas, kind, accessible) ==
    IF stanzas = <<>> THEN <<>>
    ELSE (IF is_url_accessible(kind, Head(stanzas), accessible)
          THEN <<Suggestion(method, StanzaString(Head(stanzas)))>> ELSE <<>>)
         \o ForEachAccessible(method, Tail(stanzas), kind, accessible)

suggest_remote_archive_from_spec_sources_exact(a, spec_sources, accessible) ==
    ForEachAccessible("spec_sources_exact", matching_spec_sources(a, spec_sources),
                      "source", accessible)
suggest_remote_archive_from_spec_sources_sep_version(a, spec_sources, accessible) ==
    ForEachAccessible("spec_sources_sep_version",
                      SelectSeq(spec_sources, LAMBDA x : x.archive = a),
                      "source", accessible)
suggest_remote_archive_from_spec_sources_ftp_to_https(a, spec_sources, accessible) ==
    ForEachAccessible("spec_sources_ftp_to_https",
                      SelectSeq(matching_spec_sources(a, spec_sources),
                                LAMBDA x : x.scheme = "ftp"),
                      "https_for_ftp", accessible)
\* spec_source=" ".join(matching_spec_sources) if matching_spec_sources else None
joined_spec_source(stanzas) ==
    IF stanzas # <<>> THEN JoinBlank(stanzas) ELSE NoSpecSource
suggest_remote_archive_from_known_urls_exact(a, spec_sources, accessible) ==
    IF is_url_accessible("known_url", a, accessible)
    THEN <<Suggestion("known_urls_exact",
                      joined_spec_source(matching_spec_sources(a, spec_sources)))>>
    ELSE <<>>
suggest_remote_archive_that_was_moved_and_recompressed(a, spec_sources, accessible) ==
    LET matching == matching_spec_sources(a, spec_sources) IN
    [k \in 1..(IF is_url_accessible("moved", a, accessible) THEN Len(matching) ELSE 0) |->
        Suggestion("moved_and_recompressed", JoinBlank(matching))]
suggest_remote_archive_from_another_subdomain_url(a, spec_sources, accessible) ==
    ForEachAccessible("another_subdomain_url",
                      SelectSeq(matching_spec_sources(a, spec_sources),
                                LAMBDA x : x.scheme # "none"),
                      "subdomain", accessible)

\* SUGGESTION_METHODS applied in turn, the lists concatenated; only the
\* spec_source of a suggestion is kept.
RECURSIVE SpecSourcesOf(_)
SpecSourcesOf(l) ==
    IF l = <<>> THEN <<>> ELSE <<Head(l).spec_source>> \o SpecSourcesOf(Tail(l))
find_suggestions_for_archive(a, spec_sources, accessible) ==
    SpecSourcesOf(
        suggest_remote_archive_from_spec_sources_exact(a, spec_sources, accessible)
        \o suggest_remote_archive_from_spec_sources_sep_version(a, spec_sources, accessible)
        \o suggest_remote_archive_from_spec_sources_ftp_to_https(a, spec_sources, accessible)
        \o suggest_remote_archive_from_known_urls_exact(a, spec_sources, accessible)
        \o suggest_remote_archive_that_was_moved_and_recompressed(a, spec_sources, accessible)
        \o suggest_remote_archive_from_another_subdomain_url(a, spec_sources, accessible))

\* determine_unused_spec_sources: set(spec_sources) minus the spec_source
\* strings of all suggestions.
used_spec_sources(sugg) ==
    UNION {{sugg[a][k] : k \in {j \in DOMAIN sugg[a] : sugg[a][j] # NoSpecSource}} :
           a \in DOMAIN sugg}
determine_unused_spec_sources(spec_sources, sugg) ==
    {x \in Range(spec_sources) : StanzaString(x) \notin used_spec_sources(sugg)}

\* _transform_extract_nested_archives: None unless there is one bare-name
\* stanza with a configured clue and one local archive; then tarfile.open, which
\* raises on a file that is no readable tar; None when a member is no archive or
\* the extraction is refused; else the members replace archives and stanzas.
TarOutcomes == {"open_raises", "other_members", "not_extracted", "extracted"}
NotApplied(local_archives, spec_sources) ==
    [applied |-> FALSE, raised |-> FALSE,
     local_archives |-> local_archives, spec_sources |-> spec_sources]
Applied(local_archives, spec_sources) ==
    [applied |-> TRUE, raised |-> FALSE,
     local_archives |-> local_archives, spec_sources |-> spec_sources]
Raises(local_archives, spec_sources) ==
    [applied |-> FALSE, raised |-> TRUE,
     local_archives |-> local_archives, spec_sources |-> spec_sources]
transform_extract_nested_archives(local_archives, spec_sources, clue, tar, getnames) ==
    IF Len(spec_sources) # 1 \/ Len(local_archives) # 1
    THEN NotApplied(local_archives, spec_sources)
    ELSE IF spec_sources[1].scheme # "none" \/ ~clue
    THEN NotApplied(local_archives, spec_sources)
    ELSE IF tar = "open_raises" THEN Raises(local_archives, spec_sources)
    ELSE IF tar \in {"other_members", "not_extracted"}
    THEN NotApplied(local_archives, spec_sources)
    ELSE Applied(getnames, [k \in DOMAIN getnames |-> BareName(getnames[k])])

\* _transform_remove_url_fragment_from_spec_sources: every http(s) stanza is
\* rebuilt without fragment and counted; None when none was counted.
transform_remove_url_fragment_from_spec_sources(local_archives, spec_sources) ==
    IF \E k \in DOMAIN spec_sources : spec_sources[k].scheme = "https"
    THEN Applied(local_archives,
                 [k \in DOMAIN spec_sources |->
                    IF spec_sources[k].scheme = "https"
                    THEN [spec_sources[k] EXCEPT !.fragment = FALSE]
                    ELSE spec_sources[k]])
    ELSE NotApplied(local_archives, spec_sources)

\* _apply_one_transformation: the record a method returned is appended to the
\* result's transformations; nothing is appended when it returned None.
LocalArchiveTransformation(name, input_spec_sources, t) ==
    IF t.applied
    THEN <<[name |-> name, input_spec_sources |-> input_spec_sources,
            output_spec_sources |-> t.spec_sources]>>
    ELSE <<>>

\* _get_remote_archives_for_source_package up to the suggester's first method:
\* the result of the constructor is returned when archives or stanzas are
\* missing.
S_Start ==
    /\ pc = "suggest"
    /\ suggester.pc = "start"
    /\ suggester' = [suggester EXCEPT !.pc =
            IF Len(suggester.local_archives) > 0 /\ Len(suggester.spec_sources) > 0
            THEN (IF suggester.transform_archives THEN "transform" ELSE "find")
            ELSE "returned"]
    /\ UNCHANGED <<archive_suggestions, unused_spec_sources>>
    /\ UNCHANGED beside_suggester

\* apply_transformations: TRANSFORMATION_METHODS in order, each on the archives
\* and stanzas the one before left; an exception of a method is not caught.
S_ApplyTransformations ==
    /\ pc = "suggest"
    /\ suggester.pc = "transform"
    /\ \E clue \in BOOLEAN, tar \in TarOutcomes, getnames \in {<<"A">>, <<"A", "B">>} :
        LET nested == transform_extract_nested_archives(
                        suggester.local_archives, suggester.spec_sources, clue, tar, getnames)
            fixed == transform_remove_url_fragment_from_spec_sources(
                        nested.local_archives, nested.spec_sources)
        IN
        suggester' = IF nested.raised
                     THEN [suggester EXCEPT !.pc = "raised", !.raised = TRUE]
                     ELSE [suggester EXCEPT !.pc = "find",
                                            !.local_archives = fixed.local_archives,
                                            !.spec_sources = fixed.spec_sources,
                                            !.transformations =
                                                LocalArchiveTransformation(
                                                    "extract_nested_archives",
                                                    suggester.spec_sources, nested)
                                                \o LocalArchiveTransformation(
                                                    "remove_url_fragment_from_spec_sources",
                                                    nested.spec_sources, fixed)]
    /\ UNCHANGED <<archive_suggestions, unused_spec_sources>>
    /\ UNCHANGED beside_suggester

\* find_suggestions: one turn of its loop over the local archives.
S_FindSuggestions ==
    /\ pc = "suggest"
    /\ suggester.pc = "find"
    /\ Cardinality(DOMAIN archive_suggestions) < Len(suggester.local_archives)
    /\ LET a == suggester.local_archives[Cardinality(DOMAIN archive_suggestions) + 1] IN
       archive_suggestions' = archive_suggestions @@
            (a :> find_suggestions_for_archive(a, suggester.spec_sources,
                                               suggester.accessible))
    /\ UNCHANGED <<suggester, unused_spec_sources>>
    /\ UNCHANGED beside_suggester

S_DetermineUnused ==
    /\ pc = "suggest"
    /\ suggester.pc = "find"
    /\ Cardinality(DOMAIN archive_suggestions) = Len(suggester.local_archives)
    /\ unused_spec_sources' = determine_unused_spec_sources(suggester.spec_sources, archive_suggestions)
    /\ suggester' = [suggester EXCEPT !.pc = "returned"]
    /\ UNCHANGED archive_suggestions
    /\ UNCHANGED beside_suggester

SuggesterOff ==
    /\ suggester = [pc |-> "off", local_archives |-> <<>>, spec_sources |-> <<>>,
                    transform_archives |-> FALSE, transformations |-> <<>>,
                    raised |-> FALSE,
                    accessible |-> [sources |-> {}, derived |-> {}]]
    /\ archive_suggestions = [a \in {} |-> <<>>]
    /\ unused_spec_sources = {}

\* ------------------------------------------------------- operation cache
\* Worker processes of a run, the argument tuples a cached function is called
\* with, the calls made in one run, and the writes one json.dump takes.
Workers == {"w1", "w2"}
Args == {"x", "y"}
MaxCalls == 3
FileChunks == 2

\* The cached function: pure, its result depends on the arguments alone.
func(a) == [value |-> a]

\* to_json_dict of a result and the return_type(**data) that reads it back.
return_type_to_json_dict(result) == [json |-> result.value]
data_to_return_type(data) == [value |-> data.json]

\* generate_hash_metadata: the cache key names the file, the metadata is kept
\* inside it.  An entry written by an earlier version holds other metadata.
generate_hash_metadata(a) == [cache_key |-> a, cache_meta_data |-> a]
StaleMetaData == "stale"

\* A cache file: what json.dump is writing, and the chunks already on disk.
CacheEntry(meta, result) ==
    [metadata |-> meta, result |-> return_type_to_json_dict(result)]
NoValue == [value |-> None]
NoFile == [exists |-> FALSE, entry |-> CacheEntry(None, NoValue), chunks |-> {}]
Opened(entry) == [exists |-> TRUE, entry |-> entry, chunks |-> {}]
Written(file, k) == [file EXCEPT !.chunks = @ \cup {k}]
Stored(entry) == [exists |-> TRUE, entry |-> entry, chunks |-> 1..FileChunks]
IsCompleteJson(file) == file.exists /\ file.chunks = 1..FileChunks

\* load_return_value_from_cache_file: json.loads raises on a file that is not
\* complete JSON; None when the metadata differs; else the result read back.
LoadRaises == [raises |-> TRUE, cached_result |-> NoValue]
LoadReturns(cached_result) == [raises |-> FALSE, cached_result |-> cached_result]
load_return_value_never(file, cache_meta_data) == LoadReturns(NoValue)
load_return_value_from_cache_file(file, cache_meta_data) ==
    IF ~IsCompleteJson(file) THEN LoadRaises
    ELSE IF file.entry.metadata # cache_meta_data THEN LoadReturns(NoValue)
    ELSE LoadReturns(data_to_return_type(file.entry.result))

\* shutil.rmtree(cache_file, ignore_errors=True) on a cache file: rmtree
\* removes directory trees; on a regular file it fails and the failure is
\* ignored, so the file stays as it is.
rmtree_ignore_errors(file) == file

NoCall == [pc |-> "idle", arg |-> None, prev |-> None, cache_file |-> None,
           pos |-> 0, executed |-> FALSE, result |-> NoValue, raised |-> FALSE,
           failed |-> {}]
NoStats == [calls |-> 0, cached_results |-> 0, cached_hash_errors |-> 0,
            cached_retrieve_errors |-> 0, cached_store_errors |-> 0]
NoErrors == [hash |-> 0, retrieve |-> 0, store |-> 0]

\* The three except clauses of OperationCache.call: each logs the exception and
\* lets the call go on at the statement after its try block.
propagate(c, kind, next) ==
    [c EXCEPT !.pc = "returned", !.raised = TRUE, !.failed = @ \cup {kind}]
except_Exception(c, kind, next) ==
    [c EXCEPT !.pc = next, !.failed = @ \cup {kind}]

\* The counter updates of the except clauses: "+= 1" for hash errors, "= 0" for
\* retrieve and store errors.
hash_error_counted(n) == n + 1
retrieve_error_counted(n) == 0
store_error_counted(n) == 0

\* result = func(*args, **kwargs), then on to the store, if there is a file.
Executed(c) ==
    [c EXCEPT !.executed = TRUE, !.result = func(c.arg),
              !.pc = IF c.cache_file = None THEN "returned" ELSE "store"]

RECURSIVE CallsOf(_)
CallsOf(W) ==
    IF W = {} THEN 0
    ELSE LET w == CHOOSE v \in W : TRUE IN stats[w].calls + CallsOf(W \ {w})
CallsMade == CallsOf(Workers)

\* call, up to the lookup: count the call; without cache directory run func;
\* else compute the cache file, which may fail (unhashable argument, makedirs).
C_Call(w) ==
    /\ pc = "cache"
    /\ call[w].pc \in {"idle", "returned"}
    /\ CallsMade < MaxCalls
    /\ \E a \in Args, hash_ok \in BOOLEAN :
        LET c == [NoCall EXCEPT !.arg = a, !.prev = call[w].arg] IN
        IF cache_directory = None
        THEN /\ hash_ok
             /\ call' = [call EXCEPT ![w] = Executed(c)]
             /\ stats' = [stats EXCEPT ![w].calls = @ + 1]
             /\ UNCHANGED errors
        ELSE IF hash_ok
        THEN /\ call' = [call EXCEPT ![w] =
                    [c EXCEPT !.pc = "lookup",
                              !.cache_file = generate_hash_metadata(a).cache_key]]
             /\ stats' = [stats EXCEPT ![w].calls = @ + 1]
             /\ UNCHANGED errors
        ELSE /\ call' = [call EXCEPT ![w] = except_Exception(c, "hash", "lookup")]
             /\ stats' = [stats EXCEPT ![w].calls = @ + 1,
                                       ![w].cached_hash_errors = hash_error_counted(@)]
             /\ errors' = [errors EXCEPT ![w].hash = @ + 1]
    /\ UNCHANGED <<cache_directory, write_only, files>>
    /\ UNCHANGED beside_cache

\* The lookup: skipped in write-only mode and without cache file; a file that
\* exists is counted and loaded, which may raise (unreadable file, broken JSON)
\* or give None; any other value is returned at once.
C_Lookup(w) ==
    /\ pc = "cache"
    /\ call[w].pc = "lookup"
    /\ LET c == call[w]
           file == files[c.cache_file]
           meta == generate_hash_metadata(c.arg).cache_meta_data
       IN
       IF write_only \/ c.cache_file = None
       THEN /\ call' = [call EXCEPT ![w].pc = "execute"]
            /\ UNCHANGED <<stats, errors>>
       ELSE IF ~file.exists
       THEN /\ call' = [call EXCEPT ![w].pc = "execute"]
            /\ UNCHANGED <<stats, errors>>
       ELSE \E read_ok \in BOOLEAN :
            LET loaded == IF read_ok
                          THEN load_return_value_from_cache_file(file, meta)
                          ELSE LoadRaises
                cached_result == loaded.cached_result
            IN
            IF loaded.raises
            THEN /\ call' = [call EXCEPT ![w] = except_Exception(c, "retrieve", "execute")]
                 /\ stats' = [stats EXCEPT
                        ![w].cached_results = @ + 1,
                        ![w].cached_retrieve_errors = retrieve_error_counted(@)]
                 /\ errors' = [errors EXCEPT ![w].retrieve = @ + 1]
            ELSE /\ call' = [call EXCEPT ![w] =
                        IF cached_result # NoValue
                        THEN [c EXCEPT !.pc = "returned", !.result = cached_result]
                        ELSE [c EXCEPT !.pc = "execute"]]
                 /\ stats' = [stats EXCEPT ![w].cached_results = @ + 1]
                 /\ UNCHANGED errors
    /\ UNCHANGED <<cache_directory, write_only, files>>
    /\ UNCHANGED beside_cache

\* result = func(*args, **kwargs)
C_Execute(w) ==
    /\ pc = "cache"
    /\ call[w].pc = "execute"
    /\ call' = [call EXCEPT ![w] = Executed(call[w])]
    /\ UNCHANGED <<cache_directory, write_only, files, stats, errors>>
    /\ UNCHANGED beside_cache

\* The except clause of the store: set the counter, rmtree the cache file,
\* return the result.
StoreFailed(w) ==
    /\ call' = [call EXCEPT ![w] = except_Exception(call[w], "store", "returned")]
    /\ stats' = [stats EXCEPT ![w].cached_store_errors = store_error_counted(@)]
    /\ errors' = [errors EXCEPT ![w].store = @ + 1]

\* store_return_value_in_cache_file, up to open(cache_file, "w"): building the
\* entry or opening the file may raise, and then the file is as it was; open
\* truncates the file at the cache path itself.
C_StoreOpen(w) ==
    /\ pc = "cache"
    /\ call[w].pc = "store"
    /\ LET c == call[w] IN
       \E open_ok \in BOOLEAN :
        IF open_ok
        THEN /\ files' = [files EXCEPT ![c.cache_file] =
                    Opened(CacheEntry(generate_hash_metadata(c.arg).cache_meta_data,
                                      c.result))]
             /\ call' = [call EXCEPT ![w].pc = "write", ![w].pos = 1]
             /\ UNCHANGED <<stats, errors>>
        ELSE /\ files' = [files EXCEPT ![c.cache_file] = rmtree_ignore_errors(@)]
             /\ StoreFailed(w)
    /\ UNCHANGED <<cache_directory, write_only>>
    /\ UNCHANGED beside_cache

\* json.dump: one write of the entry's text; it may raise (disk full); after
\* the last one the file is closed and call returns the result.
C_StoreWrite(w) ==
    /\ pc = "cache"
    /\ call[w].pc = "write"
    /\ LET c == call[w] IN
       \E write_ok \in BOOLEAN :
        IF write_ok
        THEN /\ files' = [files EXCEPT ![c.cache_file] = Written(@, c.pos)]
             /\ call' = [call EXCEPT ![w].pos = @ + 1,
                                     ![w].pc = IF c.pos = FileChunks
                                               THEN "returned" ELSE "write"]
             /\ UNCHANGED <<stats, errors>>
        ELSE /\ files' = [files EXCEPT ![c.cache_file] = rmtree_ignore_errors(@)]
             /\ StoreFailed(w)
    /\ UNCHANGED <<cache_directory, write_only>>
    /\ UNCHANGED beside_cache

\* A worker process is killed while it writes a cache file.
C_Die(w) ==
    /\ pc = "cache"
    /\ call[w].pc = "write"
    /\ call' = [call EXCEPT ![w].pc = "dead"]
    /\ UNCHANGED <<cache_directory, write_only, files, stats, errors>>
    /\ UNCHANGED beside_cache

\* ------------------------------------------------------- secure extraction
\* The members of an archive: a name is "f", below an optional directory "d",
\* behind an optional leading "..", behind an optional leading "/".
MaxMembers == 2
MemberNames == [abs : BOOLEAN, up : BOOLEAN, dir : BOOLEAN]
Archives == UNION {[1..n -> MemberNames] : n \in 0..MaxMembers}

\* Where a name lands when it is joined to the destination as it is.
Target(name) == [outside |-> name.abs \/ name.up, dir |-> name.dir]

\* What a filter does with a member: it is written, refused or left out.
Extracts(target) == [raises |-> FALSE, skipped |-> FALSE, target |-> target]
Refuses == [raises |-> TRUE, skipped |-> FALSE, target |-> Target([abs |-> FALSE, up |-> FALSE, dir |-> FALSE])]
Skips == [raises |-> FALSE, skipped |-> TRUE, target |-> Target([abs |-> FALSE, up |-> FALSE, dir |-> FALSE])]

\* A filter that trusts the archive: every member is written where it says.
fully_trusted_filter(name) == Extracts(Target(name))

\* tarfile's "data" filter: leading slashes are stripped from the name; a name
\* that then resolves outside the destination raises OutsideDestinationError.
lstrip_slash(name) == [name EXCEPT !.abs = FALSE]
data_filter(name) ==
    IF Target(lstrip_slash(name)).outside THEN Refuses
    ELSE Extracts(Target(lstrip_slash(name)))

\* shutil's zip unpacking: a name that starts with "/" or holds ".." is left out.
unpack_zipfile_member(name) ==
    IF name.abs \/ name.up THEN Skips ELSE Extracts(Target(name))

\* secure_unpack_archive, one member of shutil.unpack_archive at a time: the
\* exception of a refused member, and any other exception of the extraction,
\* end it with False; the members written before stay.
U_Member ==
    /\ unpack.pc = "extract"
    /\ unpack.pos <= Len(unpack.members)
    /\ LET name == unpack.members[unpack.pos]
           f == IF unpack.zip THEN unpack_zipfile_member(name) ELSE data_filter(name)
       IN
       \/ unpack' = IF f.raises
                     THEN [unpack EXCEPT !.pc = "returned", !.result = FALSE]
                     ELSE [unpack EXCEPT !.pos = @ + 1,
                                         !.written = IF f.skipped THEN @ ELSE @ \cup {f.target}]
       \/ \* an OSError while the member is written
          unpack' = [unpack EXCEPT !.pc = "returned", !.result = FALSE]
    /\ UNCHANGED <<extract, matcher, probe, keys, oc, order>>
    /\ UNCHANGED beside_tools

U_Return ==
    /\ unpack.pc = "extract"
    /\ unpack.pos > Len(unpack.members)
    /\ unpack' = [unpack EXCEPT !.pc = "returned", !.result = TRUE]
    /\ UNCHANGED <<extract, matcher, probe, keys, oc, order>>
    /\ UNCHANGED beside_tools

UnpackOff ==
    unpack = [pc |-> "off", zip |-> FALSE, members |-> <<>>, pos |-> 1,
              written |-> {}, result |-> FALSE]

\* ------------------------------------------------------- version extraction
\* Strings are sequences of characters.  The archive names of the fixture table
\* of test_extract_version_from_archive_name with the tuples it expects.
VersionInfo(version, date, suffix, commit) ==
    [version |-> version, date |-> date, suffix |-> suffix, is_commit_hash |-> commit]
FixtureTable == <<
    [archive_name |-> <<"a", "c", "l", "-", "2", ".", "3", ".", "1", ".", "t", "a", "r", ".", "g", "z">>,
     expected |-> VersionInfo(<<"2", "_", "3", "_", "1">>, <<>>, <<>>, FALSE)],
    [archive_name |-> <<"b", "a", "s", "h", "-", "5", ".", "2", ".", "t", "a", "r", ".", "g", "z">>,
     expected |-> VersionInfo(<<"5", "_", "2">>, <<>>, <<>>, FALSE)],
    [archive_name |-> <<"j", "s", "o", "n", "-", "c", "-", "0", ".", "1", "4", "-", "2", "0", "2", "0", "0", "4", "1", "9", ".", "t", "a", "r", ".", "g", "z">>,
     expected |-> VersionInfo(<<"0", "_", "1", "4">>, <<"2", "0", "2", "0", "0", "4", "1", "9">>, <<>>, FALSE)],
    [archive_name |-> <<"o", "p", "e", "n", "s", "s", "h", "-", "8", ".", "7", "p", "1", ".", "t", "a", "r", ".", "g", "z">>,
     expected |-> VersionInfo(<<"8", "_", "7">>, <<>>, <<"1">>, FALSE)],
    [archive_name |-> <<"c", "u", "p", "s", "-", "2", ".", "4", ".", "1", "1", "-", "s", "o", "u", "r", "c", "e", ".", "t", "a", "r", ".", "g", "z">>,
     expected |-> VersionInfo(<<"2", "_", "4", "_", "1", "1">>, <<>>, <<"s", "o", "u", "r", "c", "e">>, FALSE)],
    [archive_name |-> <<"l", "i", "b", "e", "v", "e", "n", "t", "-", "2", ".", "1", ".", "1", "2", "-", "s", "t", "a", "b", "l", "e", ".", "t", "a", "r", ".", "g", "z">>,
     expected |-> VersionInfo(<<"2", "_", "1", "_", "1", "2">>, <<>>, <<"s", "t", "a", "b", "l", "e">>, FALSE)],
    [archive_name |-> <<"s", "q", "l", "i", "t", "e", "-", "a", "u", "t", "o", "c", "o", "n", "f", "-", "3", "4", "0", "0", "0", "0", "0", ".", "t", "a", "r", ".", "g", "z">>,
     expected |-> VersionInfo(<<"3", "4", "0", "0", "0", "0", "0">>, <<>>, <<>>, FALSE)],
    [archive_name |-> <<"v", "2", ".", "2", ".", "0", ".", "t", "a", "r", ".", "g", "z">>,
     expected |-> VersionInfo(<<"2", "_", "2", "_", "0">>, <<>>, <<>>, FALSE)],
    [archive_name |-> <<"e", "x", "a", "m", "p", "l", "e", "-", "a", "b", "c", "d", "e", "f", "1", "2", "3", "4", "5", "6", ".", "t", "a", "r", ".", "g", "z">>,
     expected |-> VersionInfo(<<"a", "b", "c", "d", "e", "f", "1", "2", "3", "4", "5", "6">>, <<>>, <<>>, TRUE)],
    [archive_name |-> <<"g", "l", "i", "b", "c", "-", "2", ".", "4", "2", "-", "2", "1", "-", "g", "7", "a", "8", "f", "3", "c", "6", "e", "e", "4", ".", "t", "a", "r", ".", "x", "z">>,
     expected |-> VersionInfo(<<"7", "a", "8", "f", "3", "c", "6", "e", "e", "4">>, <<>>, <<>>, TRUE)]>>

\* More archive names: two or three parts of names in the wild, joined by "-" or
\* "_", with an archive extension.
NameParts == {<<>>,
              <<"g", "l", "i", "b", "c">>,
              <<"2", ".", "4", "2">>,
              <<"2", "1">>,
              <<"g", "7", "a", "8", "f", "3", "c", "6", "e", "e", "4">>,
              <<"2", "0", "2", "0", "0", "4", "1", "9">>,
              <<"2", "0", "2", "0", "0", "2", "3", "0">>,
              <<"V", "2">>,
              <<"s", "t", "a", "b", "l", "e">>,
              <<"8", ".", "7", "p", "1">>,
              <<"a", "b", "c", "d", "e", "f", "1">>}
Joiners == {<<"-">>, <<"_">>}
Extensions == {<<".", "t", "a", "r", ".", "g", "z">>, <<".", "z", "i", "p">>}
SUPPORTED_ARCHIVE_TYPES == <<<<".", "t", "a", "r", ".", "b", "z", "2">>,
                            <<".", "t", "b", "z", "2">>,
                            <<".", "t", "a", "r", ".", "g", "z">>,
                            <<".", "t", "g", "z">>,
                            <<".", "t", "a", "r">>,
                            <<".", "t", "a", "r", ".", "x", "z">>,
                            <<".", "t", "x", "z">>,
                            <<".", "z", "i", "p">>>>
UpperCase == <<"A", "B", "C", "D", "E", "F", "G", "H", "I", "J", "K", "L", "M", "N", "O", "P", "Q", "R", "S", "T", "U", "V", "W", "X", "Y", "Z">>
LowerCase == <<"a", "b", "c", "d", "e", "f", "g", "h", "i", "j", "k", "l", "m", "n", "o", "p", "q", "r", "s", "t", "u", "v", "w", "x", "y", "z">>
DigitChars == <<"0", "1", "2", "3", "4", "5", "6", "7", "8", "9">>
HexLetters == {"a", "b", "c", "d", "e", "f"}

\* str methods on sequences of characters.
Digits == {DigitChars[i] : i \in DOMAIN DigitChars}
isdigit(s) == s # <<>> /\ \A i \in DOMAIN s : s[i] \in Digits
IntOf(c) == (CHOOSE i \in DOMAIN DigitChars : DigitChars[i] = c) - 1
RECURSIVE int(_)
int(s) == IF s = <<>> THEN 0 ELSE 10 * int(SubSeq(s, 1, Len(s) - 1)) + IntOf(s[Len(s)])
lower(s) ==
    [i \in DOMAIN s |->
        IF \E k \in DOMAIN UpperCase : UpperCase[k] = s[i]
        THEN LowerCase[CHOOSE k \in DOMAIN UpperCase : UpperCase[k] = s[i]]
        ELSE s[i]]
endswith(s, e) == Len(s) >= Len(e) /\ SubSeq(s, Len(s) - Len(e) + 1, Len(s)) = e
rfind(s, c) ==
    IF \E i \in DOMAIN s : s[i] = c
    THEN CHOOSE i \in DOMAIN s : s[i] = c /\ \A j \in DOMAIN s : s[j] = c => j <= i
    ELSE 0
replace(s, old, new) == [i \in DOMAIN s |-> IF s[i] = old THEN new ELSE s[i]]

\* datetime(year, month, day) accepts the date.
DaysInMonth(year, month) ==
    IF month = 2
    THEN (IF (year % 4 = 0 /\ year % 100 # 0) \/ year % 400 = 0 THEN 29 ELSE 28)
    ELSE IF month \in {4, 6, 9, 11} THEN 30 ELSE 31
is_valid_date_format(date_str) ==
    /\ Len(date_str) = 8
    /\ isdigit(date_str)
    /\ LET year == int(SubSeq(date_str, 1, 4))
           month == int(SubSeq(date_str, 5, 6))
           day == int(SubSeq(date_str, 7, 8))
       IN year >= 1 /\ month \in 1..12 /\ day \in 1..DaysInMonth(year, month)

is_commit_hash(hash_str) ==
    /\ Len(hash_str) >= 6
    /\ Len(hash_str) <= 40
    /\ \A i \in DOMAIN hash_str : hash_str[i] \in Digits \cup HexLetters
    /\ \E i \in DOMAIN hash_str : hash_str[i] \in HexLetters

is_version(version_str) ==
    /\ version_str # <<>>
    /\ \/ version_str[1] \in Digits
       \/ /\ version_str[1] \in {"v", "r"}
          /\ Len(version_str) > 1
          /\ version_str[2] \in Digits

\* Step 1 of extract_version_from_archive_name: the first supported extension
\* the lower-cased name ends with is cut off.
RECURSIVE remove_extension(_, _)
remove_extension(archive_name, types) ==
    IF types = <<>> THEN archive_name
    ELSE IF endswith(archive_name, Head(types))
    THEN SubSeq(archive_name, 1, Len(archive_name) - Len(Head(types)))
    ELSE remove_extension(archive_name, Tail(types))

\* Step 2: the while loop, from the last "-" backwards.
RECURSIVE find_version(_, _, _)
find_version(archive_name, version_date, version_suffix) ==
    LET last_dash_pos == rfind(archive_name, "-")
        last_underscore_pos == rfind(archive_name, "_")
        potential_version == SubSeq(archive_name, last_dash_pos + 1, Len(archive_name))
        rest == SubSeq(archive_name, 1, last_dash_pos - 1)
    IN
    IF last_dash_pos = 0
    THEN IF last_underscore_pos # 0
         THEN find_version([archive_name EXCEPT ![last_underscore_pos] = "-"],
                           version_date, version_suffix)
         ELSE VersionInfo(archive_name, version_date, version_suffix, FALSE)
    ELSE IF is_valid_date_format(potential_version)
    THEN find_version(rest, potential_version, version_suffix)
    ELSE IF is_commit_hash(potential_version)
    THEN VersionInfo(potential_version, version_date, version_suffix, TRUE)
    ELSE IF is_version(potential_version)
    THEN VersionInfo(potential_version, version_date, version_suffix, FALSE)
    ELSE find_version(rest, version_date, potential_version)

\* Step 3: a leading "v" or "r" is dropped, "." and "-" become "_".
normalize_version(version) ==
    replace(replace(IF version[1] \in {"v", "r"} THEN Tail(version) ELSE version,
                    ".", "_"),
            "-", "_")

\* Step 4: re.match(r"(.+?)p(\d+)$", version): the position of the "p".
PortablePositions(version) ==
    {i \in DOMAIN version :
        /\ i >= 2
        /\ version[i] = "p"
        /\ isdigit(SubSeq(version, i + 1, Len(version)))}
split_portable(v) ==
    IF PortablePositions(v.version) = {} THEN v
    ELSE LET i == CHOOSE i \in PortablePositions(v.version) :
                    \A j \in PortablePositions(v.version) : i <= j
         IN [v EXCEPT !.version = SubSeq(v.version, 1, i - 1),
                      !.suffix = SubSeq(v.version, i + 1, Len(v.version))]

\* extract_version_from_archive_name: the tuple it returns, or ValueError.
ValueError == [raised |-> TRUE, value |-> VersionInfo(<<>>, <<>>, <<>>, FALSE)]
Returns(value) == [raised |-> FALSE, value |-> value]
extract_version_from_archive_name(source_archive) ==
    LET found == find_version(remove_extension(lower(source_archive),
                                               SUPPORTED_ARCHIVE_TYPES), <<>>, <<>>)
    IN
    IF found.version = <<>> THEN ValueError
    ELSE Returns(split_portable([found EXCEPT !.version = normalize_version(found.version)]))

\* The archive names the extractor is called with.
FixtureNames == {FixtureTable[k].archive_name : k \in DOMAIN FixtureTable}
ArchiveNamesWithVersion ==
    FixtureNames
    \cup {a \o j \o b \o e : a \in NameParts, j \in Joiners, b \in NameParts, e \in Extensions}

E_Call ==
    /\ extract.pc = "start"
    /\ extract' = [extract EXCEPT !.pc = "done",
                       !.outcome = extract_version_from_archive_name(extract.source_archive)]
    /\ UNCHANGED <<unpack, matcher, probe, keys, oc, order>>
    /\ UNCHANGED beside_tools

ExtractOff == extract = [pc |-> "off", source_archive |-> <<>>, outcome |-> ValueError]

\* ------------------------------------------------------- file matching
\* The files of an archive: a text file and a binary file, each absent or with
\* a content; a content is its text and the dates written in it.
FileNames == <<"A", "B.png">>
BINARY_FILE_TYPES == {"B.png"}
Contents == [text : {"t1", "t2"}, dates : {"d1", "d2"}]
Trees == UNION {[D -> Contents] : D \in SUBSET {FileNames[i] : i \in DOMAIN FileNames}}

\* compare_strings_ignore_date_numbers: equal, or equal once every date is
\* replaced by the same placeholder.
compare_strings_ignore_date_numbers(left_str, right_str) ==
    left_str = right_str \/ left_str.text = right_str.text
_compare_binary_files(left_content, right_content) ==
    IF left_content = right_content THEN MATCHING ELSE DIFFERENT

\* A comparison that takes a file without counterpart for matched.
match_without_counterpart(left, right, file) ==
    IF file \notin DOMAIN right THEN MATCHING
    ELSE IF left[file] = right[file] THEN MATCHING ELSE DIFFERENT

\* _match_left_files on one file of the left directory.
_match_left_files(left, right, file) ==
    IF file \notin DOMAIN right THEN NO_COUNTERPART
    ELSE IF file \notin BINARY_FILE_TYPES
    THEN (IF compare_strings_ignore_date_numbers(left[file], right[file])
          THEN MATCHING ELSE DIFFERENT)
    ELSE _compare_binary_files(left[file], right[file])

\* os.walk(left): the files of the left directory.
walk(left) == SelectSeq(FileNames, LAMBDA f : f \in DOMAIN left)

\* match_files(left, right) on two archive files: _match_left_files compares
\* the bytes and, when they differ, _compare_archives extracts both.
FM_Archives ==
    /\ matcher.pc = "start"
    /\ matcher' =
        IF matcher.identical
        THEN [matcher EXCEPT !.pc = "done", !.state_dict = <<MATCHING>>, !.result = TRUE]
        ELSE IF ~matcher.extract_left \/ ~matcher.extract_right
        THEN [matcher EXCEPT !.pc = "done", !.state_dict = <<DIFFERENT>>, !.result = FALSE]
        ELSE [matcher EXCEPT !.pc = "walk", !.files = walk(matcher.left)]
    /\ UNCHANGED <<unpack, extract, probe, keys, oc, order>>
    /\ UNCHANGED beside_tools

\* match_left of the inner FileMatcher: one file of the extracted left archive.
FM_File ==
    /\ matcher.pc = "walk"
    /\ matcher.files # <<>>
    /\ matcher' = [matcher EXCEPT
            !.files = Tail(@),
            !.inner = Append(@, _match_left_files(matcher.left, matcher.right,
                                                  Head(matcher.files)))]
    /\ UNCHANGED <<unpack, extract, probe, keys, oc, order>>
    /\ UNCHANGED beside_tools

\* The end of _compare_archives and of match_files: left_is_matching of the
\* inner matcher gives the state of the archive, that of the outer the result.
FM_Return ==
    /\ matcher.pc = "walk"
    /\ matcher.files = <<>>
    /\ LET state == IF left_is_matching(matcher.inner) THEN MATCHING ELSE DIFFERENT IN
       matcher' = [matcher EXCEPT !.pc = "done", !.state_dict = <<state>>,
                                  !.result = left_is_matching(<<state>>)]
    /\ UNCHANGED <<unpack, extract, probe, keys, oc, order>>
    /\ UNCHANGED beside_tools

MatcherOff ==
    matcher = [pc |-> "off", left |-> <<>>, right |-> <<>>, identical |-> FALSE,
               extract_left |-> FALSE, extract_right |-> FALSE, files |-> <<>>,
               inner |-> <<>>, state_dict |-> <<>>, result |-> FALSE]

\* ------------------------------------------------------- git probe
\* The URLs probed in one process: three that look like a repository and one
\* with a query.  maxsize stands for the 512 entries of the lru_cache.
RepoUrls == {"r1", "r2", "r3", "r?q"}
maxsize == 2
MaxProbes == 5

\* What is looked at before the remote query: a URL with query or fragment, without
\* path, with a hint component or a problematic extension is no repository.
looks_like_git_repo(repo) == repo # "r?q"

\* functools.lru_cache: the entries, least recently used first.
CachedUrls(cache) == {cache[k].repo : k \in DOMAIN cache}
cached_result(cache, repo) ==
    cache[CHOOSE k \in DOMAIN cache : cache[k].repo = repo].result
lru_cache_touch(cache, repo) ==
    SelectSeq(cache, LAMBDA e : e.repo # repo)
        \o SelectSeq(cache, LAMBDA e : e.repo = repo)

\* A cache that keeps nothing.
lru_cache_keeps_nothing(cache, repo, result) == cache

lru_cache_put(cache, repo, result) ==
    LET full == Append(cache, [repo |-> repo, result |-> result])
    IN IF Len(full) > maxsize THEN Tail(full) ELSE full

\* One call _is_git_repo(repo): from the cache, or computed (ls_remote is what
\* git ls-remote answers this time) and cached.  The record of the call says
\* whether the URL was probed before, the result of its latest probe, and
\* the other URLs probed since.
P_Probe(repo) ==
    /\ probe.pc = "run"
    /\ probe.calls < MaxProbes
    /\ \E ls_remote \in BOOLEAN :
        LET hit == repo \in CachedUrls(probe.cache)
            queried == ~hit /\ looks_like_git_repo(repo)
            result == IF hit THEN cached_result(probe.cache, repo)
                      ELSE IF looks_like_git_repo(repo) THEN ls_remote ELSE FALSE
        IN
        /\ ~queried => ls_remote
        /\ probe' = [probe EXCEPT
                !.calls = @ + 1,
                !.cache = IF hit THEN lru_cache_touch(@, repo)
                          ELSE lru_cache_put(@, repo, result),
                !.probed = @ \cup {repo},
                !.latest = [@ EXCEPT ![repo] = result],
                !.since = [u \in RepoUrls |-> IF u = repo THEN {} ELSE @[u] \cup {repo}],
                !.first = IF repo \in probe.probed THEN @ ELSE [@ EXCEPT ![repo] = result],
                !.last = [repo |-> repo, result |-> result, queried |-> queried,
                          again |-> repo \in probe.probed,
                          latest |-> probe.latest[repo],
                          since |-> probe.since[repo]]]
    /\ UNCHANGED <<unpack, extract, matcher, keys, oc, order>>
    /\ UNCHANGED beside_tools

NoProbe == [repo |-> "r1", result |-> FALSE, queried |-> FALSE, again |-> FALSE,
            latest |-> FALSE, since |-> {}]
ProbeOff ==
    probe = [pc |-> "off", calls |-> 0, cache |-> <<>>, probed |-> {},
             latest |-> [u \in RepoUrls |-> FALSE], since |-> [u \in RepoUrls |-> {}],
             first |-> [u \in RepoUrls |-> FALSE], last |-> NoProbe]

\* ------------------------------------------------------- cache keys
\* Argument values of a cached function: an int, strings, lists of strings; a
\* call is the function's name and its positional arguments (no keywords).
MaxArgs == 2
IntValue(digits) == [type |-> "int", chars |-> digits, items |-> <<>>]
StrValue(chars) == [type |-> "str", chars |-> chars, items |-> <<>>]
ListValue(items) == [type |-> "list", chars |-> <<>>, items |-> items]
ArgValues ==
    {IntValue(<<"1">>), StrValue(<<"1">>), StrValue(<<"a">>), StrValue(<<"b">>),
     StrValue(<<"a", ",", "b">>),
     ListValue(<<StrValue(<<"a">>)>>),
     ListValue(<<StrValue(<<"a">>), StrValue(<<"b">>)>>)}
FuncNames == {<<"f">>, <<"g">>}
CachedCalls == [func_name : FuncNames, args : SeqsUpTo(ArgValues, MaxArgs)]

\* obj_to_str: str(obj) of an int or a string, the items of a list or tuple
\* joined by ",".
RECURSIVE join(_, _)
join(sep, strs) ==
    IF strs = <<>> THEN <<>>
    ELSE IF Len(strs) = 1 THEN strs[1]
    ELSE strs[1] \o sep \o join(sep, Tail(strs))
RECURSIVE obj_to_str(_)
obj_to_str(obj) ==
    IF obj.type = "list"
    THEN join(<<",">>, [k \in DOMAIN obj.items |-> obj_to_str(obj.items[k])])
    ELSE obj.chars
args_to_str(args) == join(<<",">>, [k \in DOMAIN args |-> obj_to_str(args[k])])

\* hashlib.sha256 of a string: different strings have different digests.
sha256(str) == [hexdigest |-> str]

\* generate_hash_metadata(func_name, args, {}): the readable key is the first
\* eight characters of each non-empty part and the digest of the full key.
first_eight(part) == SubSeq(part, 1, IF Len(part) < 8 THEN Len(part) ELSE 8)
hash_metadata(func_name, args) ==
    LET key_parts == <<func_name, args_to_str(args), <<>>>>
        full_key == join(<<"_">>, key_parts)
        shown == SelectSeq(key_parts, LAMBDA part : part # <<>>)
    IN [readable_key |->
            [prefix |-> join(<<"_">>, [k \in DOMAIN shown |-> first_eight(shown[k])]),
             hash_suffix |-> sha256(full_key)],
        cache_meta_data |->
            [function |-> func_name, args |-> args_to_str(args), kwargs |-> <<>>]]

\* The file OperationCache.call uses for a call, and the metadata it compares.
cache_file_of(c) ==
    [func_dir |-> c.func_name, name |-> hash_metadata(c.func_name, c.args).readable_key]
K_Generate ==
    /\ keys.pc = "start"
    /\ keys' = [keys EXCEPT
            !.pc = "done",
            !.cache_file = [k \in DOMAIN keys.calls |-> cache_file_of(keys.calls[k])],
            !.cache_meta_data =
                [k \in DOMAIN keys.calls |->
                    hash_metadata(keys.calls[k].func_name, keys.calls[k].args).cache_meta_data]]
    /\ UNCHANGED <<unpack, extract, matcher, probe, oc, order>>
    /\ UNCHANGED beside_tools

KeysOff == keys = [pc |-> "off", calls |-> <<>>, cache_file |-> <<>>, cache_meta_data |-> <<>>]

\* ------------------------------------------------------- cache singleton
\* One process: the directories a cache can be asked to use, the one argument
\* the cached function is called with, and the operations made.
CacheDirs == {"d1", "d2"}
TheArg == "x"
MaxOps == 4

\* OperationCache(cache_directory, write_only): __new__ returns the one
\* instance, __init__ sets its fields only while it is not initialized.
OperationCache(o, directory, with_write_only) ==
    IF o.initialized THEN o
    ELSE [o EXCEPT !.initialized = TRUE, !.cache_directory = directory,
                   !.write_only = with_write_only, !.calls = 0, !.cached_results = 0,
                   !.served = 0]

\* initialize_cache(directory, write_only) and the value it returns.
O_Initialize(directory, with_write_only) ==
    /\ oc.ops < MaxOps
    /\ LET cache == OperationCache(oc, directory, with_write_only)
           cache_using_requested_dir == cache.cache_directory # directory
       IN oc' = [cache EXCEPT
                    !.ops = @ + 1,
                    !.init = [called |-> TRUE, cache_directory |-> directory,
                              write_only |-> with_write_only,
                              returned |-> cache_using_requested_dir],
                    !.last = [@ EXCEPT !.called = FALSE]]
    /\ UNCHANGED <<unpack, extract, matcher, probe, keys, order>>
    /\ UNCHANGED beside_tools

\* A call of a function wrapped by disk_cached_operation: OperationCache()
\* and cache.call(func, TheArg), from its first line to its return.
O_Call ==
    /\ oc.ops < MaxOps
    /\ \E hash_ok \in BOOLEAN, read_ok \in BOOLEAN,
          store \in {"stored", "open_raises", "dump_raises"} :
        LET cache == OperationCache(oc, <<>>, FALSE)
            dir == cache.cache_directory
            meta == generate_hash_metadata(TheArg).cache_meta_data
            file == IF dir = <<>> THEN NoFile ELSE cache.files[dir[1]]
            looked == dir # <<>> /\ ~cache.write_only /\ hash_ok /\ file.exists
            loaded == IF read_ok THEN load_return_value_from_cache_file(file, meta)
                      ELSE LoadRaises
            returned_cached == looked /\ ~loaded.raises /\ loaded.cached_result # NoValue
            entry == CacheEntry(meta, func(TheArg))
            stored_file == IF store = "stored" THEN Stored(entry)
                           ELSE IF store = "dump_raises" THEN rmtree_ignore_errors(Opened(entry))
                           ELSE rmtree_ignore_errors(file)
        IN
        /\ (dir = <<>>) => (hash_ok /\ read_ok /\ store = "stored")
        /\ ~looked => read_ok
        /\ (returned_cached \/ ~hash_ok) => store = "stored"
        /\ oc' = [cache EXCEPT
                !.ops = @ + 1,
                !.calls = @ + 1,
                !.cached_results = IF looked THEN @ + 1 ELSE @,
                !.served = IF returned_cached THEN @ + 1 ELSE @,
                !.files = IF dir = <<>> \/ returned_cached \/ ~hash_ok THEN @
                          ELSE [@ EXCEPT ![dir[1]] = stored_file],
                !.last = [called |-> TRUE, cache_directory |-> dir,
                          write_only |-> cache.write_only,
                          executed |-> ~returned_cached]]
    /\ UNCHANGED <<unpack, extract, matcher, probe, keys, order>>
    /\ UNCHANGED beside_tools

\* manage_cache(clean=True): OperationCache() and clear_cache().
O_Clear ==
    /\ oc.ops < MaxOps
    /\ LET cache == OperationCache(oc, <<>>, FALSE) IN
       oc' = [cache EXCEPT
                !.ops = @ + 1,
                !.files = IF cache.cache_directory = <<>> THEN @
                          ELSE [@ EXCEPT ![cache.cache_directory[1]] = NoFile],
                !.calls = 0,
                !.cached_results = 0,
                !.served = 0]
    /\ UNCHANGED <<unpack, extract, matcher, probe, keys, order>>
    /\ UNCHANGED beside_tools

NoInit == [called |-> FALSE, cache_directory |-> <<>>, write_only |-> FALSE,
           returned |-> FALSE]
NoCachedCall == [called |-> FALSE, cache_directory |-> <<>>, write_only |-> FALSE,
                 executed |-> FALSE]
NotConstructed(files_on_disk) ==
    [initialized |-> FALSE, cache_directory |-> <<>>, write_only |-> FALSE,
     calls |-> 0, cached_results |-> 0, served |-> 0, ops |-> 0,
     files |-> files_on_disk, init |-> NoInit, last |-> NoCachedCall]
SingletonOff == oc = NotConstructed([d \in CacheDirs |-> NoFile])

\* ------------------------------------------------------- call order
\* The methods of a RemotePackageArchivesSuggester and of a RepoSuggester,
\* called in any order.  A result is told by how often each part was written.
MaxMethodCalls == 4
NewArchiveSuggester ==
    [_apply_transformations_called |-> FALSE, _find_suggestions_called |-> FALSE,
     result |-> [transformations |-> 0, suggestions |-> 0, unused_spec_sources |-> 0]]
NewRepoSuggester ==
    [_find_suggestions_called |-> FALSE, _update_suggestions_called |-> FALSE,
     result |-> [suggestions |-> 0, tags |-> 0]]

\* One call of a method: it raises RuntimeError at its first statement, or runs
\* to its end, or is left in the middle by an exception of a step.  The record
\* of the call says whether the calls completed before it put it out of order.
Invoke(object, method, raises_RuntimeError, completed, interrupted, out_of_order) ==
    /\ order.calls < MaxMethodCalls
    /\ \E after \in IF raises_RuntimeError THEN {order[object]}
                     ELSE {completed, interrupted} :
        order' = [order EXCEPT
            !.calls = @ + 1,
            ![object] = after,
            !.done = IF ~raises_RuntimeError /\ after = completed
                     THEN @ \cup {<<object, method>>} ELSE @,
            !.last = [object |-> object, method |-> method,
                      out_of_order |-> out_of_order,
                      rejected |-> raises_RuntimeError,
                      unchanged |-> after.result = order[object].result]]
    /\ UNCHANGED <<unpack, extract, matcher, probe, keys, oc>>
    /\ UNCHANGED beside_tools

Archive_apply_transformations ==
    LET a == order.archive IN
    Invoke("archive", "apply_transformations",
           a._apply_transformations_called \/ a._find_suggestions_called,
           [a EXCEPT !.result.transformations = @ + 1, !._apply_transformations_called = TRUE],
           [a EXCEPT !.result.transformations = @ + 1],
           <<"archive", "apply_transformations">> \in order.done
               \/ <<"archive", "find_suggestions">> \in order.done)

Archive_find_suggestions ==
    LET a == order.archive IN
    Invoke("archive", "find_suggestions",
           a._find_suggestions_called,
           [a EXCEPT !.result.suggestions = @ + 1, !._find_suggestions_called = TRUE],
           [a EXCEPT !.result.suggestions = @ + 1],
           <<"archive", "find_suggestions">> \in order.done)

Archive_determine_unused_spec_sources ==
    LET a == order.archive IN
    Invoke("archive", "determine_unused_spec_sources",
           ~a._find_suggestions_called,
           [a EXCEPT !.result.unused_spec_sources = @ + 1],
           a,
           <<"archive", "find_suggestions">> \notin order.done)

Repo_find_suggestions ==
    LET r == order.repo IN
    Invoke("repo", "find_suggestions",
           r._find_suggestions_called,
           [r EXCEPT !.result.suggestions = @ + 1, !._find_suggestions_called = TRUE],
           [r EXCEPT !.result.suggestions = @ + 1],
           <<"repo", "find_suggestions">> \in order.done)

Repo_update_suggestions_with_tags ==
    LET r == order.repo IN
    Invoke("repo", "update_suggestions_with_tags",
           ~r._find_suggestions_called,
           [r EXCEPT !.result.tags = @ + 1, !._update_suggestions_called = TRUE],
           [r EXCEPT !.result.tags = @ + 1],
           <<"repo", "find_suggestions">> \notin order.done
               \/ <<"repo", "update_suggestions_with_tags">> \in order.done)

NoMethodCall == [object |-> "archive", method |-> "__init__", out_of_order |-> FALSE,
                 rejected |-> FALSE, unchanged |-> TRUE]
NewSuggesters ==
    [calls |-> 0, archive |-> NewArchiveSuggester, repo |-> NewRepoSuggester,
     done |-> {}, last |-> NoMethodCall]
OrderOff == order = NewSuggesters

ToolsOff ==
    UnpackOff /\ ExtractOff /\ MatcherOff /\ ProbeOff /\ KeysOff /\ SingletonOff /\ OrderOff

\* No package operation runs: no package, nothing called, nothing returned.
MatchOff ==
    /\ api = None
    /\ pkg = 0
    /\ sp = [srpm_file_path |-> FALSE, spec |-> FALSE, package_source_path |-> FALSE,
             failed |-> {}]
    /\ suggested_archives = NoDict
    /\ suggested_repos = NoDict
    /\ loop = NoLoop
    /\ matched_archives = <<>>
    /\ archive_hashes = {}
    /\ attempts = <<>>
    /\ ares = NoResult
    /\ rres = NoResult
    /\ validation = NoResult

\* The cache while the package operations run: switched off, nothing called.
CacheOff ==
    /\ cache_directory = None
    /\ write_only = FALSE
    /\ files = [p \in Args |-> NoFile]
    /\ call = [w \in Workers |-> NoCall]
    /\ stats = [w \in Workers |-> NoStats]
    /\ errors = [w \in Workers |-> NoErrors]

\* initialize_cache(cache_directory, write_only): a directory, or None, that
\* holds complete entries of earlier runs, some written with other metadata.
InitCache ==
    /\ ToolsOff
    /\ pc = "cache"
    /\ MatchOff
    /\ FleetOff
    /\ SuggesterOff
    /\ cache_directory \in {None, "dir"}
    /\ write_only \in BOOLEAN
    /\ files \in [Args -> {NoFile} \cup
                    {Stored(CacheEntry(m, func(a))) : m \in Args \cup {StaleMetaData}, a \in Args}]
    /\ \A p \in Args : files[p].exists =>
            /\ files[p].entry.metadata \in {generate_hash_metadata(p).cache_meta_data, StaleMetaData}
            /\ files[p].entry.result = return_type_to_json_dict(func(p))
    /\ cache_directory = None => files = [p \in Args |-> NoFile] /\ ~write_only
    /\ call = [w \in Workers |-> NoCall]
    /\ stats = [w \in Workers |-> NoStats]
    /\ errors = [w \in Workers |-> NoErrors]

NextCache ==
    \/ \E w \in Workers : C_Call(w)
    \/ \E w \in Workers : C_Lookup(w)
    \/ \E w \in Workers : C_Execute(w)
    \/ \E w \in Workers : C_StoreOpen(w)
    \/ \E w \in Workers : C_StoreWrite(w)
    \/ \E w \in Workers : C_Die(w)

SpecCache == InitCache /\ [][NextCache]_vars

\* validate_system_packages called with the packages of the host, the extra
\* packages, the cap and the report path of the command line.
InitFleet ==
    /\ ToolsOff
    /\ pc = "fleet"
    /\ MatchOff
    /\ CacheOff
    /\ SuggesterOff
    /\ \E system_packages \in UNION {Orders(S) : S \in SUBSET SystemNames},
          extra_packages \in SeqsUpTo(ExtraNames, MaxExtra),
          nr_packages_to_check \in Optional(0..MaxCap),
          output_json_path \in BOOLEAN :
        fleet = [pc |-> "start", system_packages |-> system_packages,
                 extra_packages |-> extra_packages,
                 nr_packages_to_check |-> nr_packages_to_check,
                 output_json_path |-> output_json_path,
                 all_packages_valid |-> TRUE]
    /\ combined_packages = <<>>
    /\ tasks = <<>>
    /\ package_data = [p \in {} |-> TRUE]
    /\ system_report = NoReport

NextFleet ==
    \/ F_Start
    \/ F_Worker
    \/ F_Finish

SpecFleet == InitFleet /\ [][NextFleet]_vars

\* _get_remote_archives_for_source_package called for a package with its local
\* archives and Source stanzas, in a world where some URLs are accessible.
InitSuggest ==
    /\ ToolsOff
    /\ pc = "suggest"
    /\ MatchOff
    /\ CacheOff
    /\ FleetOff
    /\ \E local_archives \in {<<>>, <<"A">>, <<"A", "B">>},
          spec_sources \in SeqsUpTo(SpecSources, MaxSources),
          transform_archives \in BOOLEAN,
          sources \in SUBSET {"https", "ftp"},
          derived \in SUBSET DerivedUrls :
        suggester = [pc |-> "start", local_archives |-> local_archives,
                     spec_sources |-> spec_sources,
                     transform_archives |-> transform_archives,
                     transformations |-> <<>>, raised |-> FALSE,
                     accessible |-> [sources |-> sources, derived |-> derived]]
    /\ archive_suggestions = [a \in {} |-> <<>>]
    /\ unused_spec_sources = Range(suggester.spec_sources)

NextSuggest ==
    \/ S_Start
    \/ S_ApplyTransformations
    \/ S_FindSuggestions
    \/ S_DetermineUnused

SpecSuggest == InitSuggest /\ [][NextSuggest]_vars

\* secure_unpack_archive(input_file, extract_dir) on an empty destination.
InitUnpack ==
    /\ pc = "unpack"
    /\ MatchOff
    /\ CacheOff
    /\ FleetOff
    /\ SuggesterOff
    /\ ExtractOff
    /\ ProbeOff
    /\ KeysOff
    /\ SingletonOff
    /\ OrderOff
    /\ MatcherOff
    /\ unpack \in [pc : {"extract"}, zip : BOOLEAN, members : Archives, pos : {1},
                    written : {{}}, result : {FALSE}]

NextUnpack ==
    \/ U_Member
    \/ U_Return

SpecUnpack == InitUnpack /\ [][NextUnpack]_vars

\* extract_version_from_archive_name(source_archive) on one archive name.
InitExtract ==
    /\ pc = "extract"
    /\ MatchOff
    /\ CacheOff
    /\ FleetOff
    /\ SuggesterOff
    /\ UnpackOff
    /\ ProbeOff
    /\ KeysOff
    /\ SingletonOff
    /\ OrderOff
    /\ MatcherOff
    /\ extract \in [pc : {"start"}, source_archive : ArchiveNamesWithVersion,
                     outcome : {ValueError}]

NextExtract == E_Call

SpecExtract == InitExtract /\ [][NextExtract]_vars

\* match_files(left, right) on two archive files; archives with the same bytes
\* hold the same files.
InitMatcher ==
    /\ pc = "matcher"
    /\ MatchOff
    /\ CacheOff
    /\ FleetOff
    /\ SuggesterOff
    /\ UnpackOff
    /\ ProbeOff
    /\ KeysOff
    /\ SingletonOff
    /\ OrderOff
    /\ ExtractOff
    /\ matcher \in [pc : {"start"}, left : Trees, right : Trees, identical : BOOLEAN,
                     extract_left : BOOLEAN, extract_right : BOOLEAN, files : {<<>>},
                     inner : {<<>>}, state_dict : {<<>>}, result : {FALSE}]
    /\ matcher.identical => matcher.left = matcher.right

NextMatcher ==
    \/ FM_Archives
    \/ FM_File
    \/ FM_Return

SpecMatcher == InitMatcher /\ [][NextMatcher]_vars

\* A process that has not probed any URL yet.
InitProbe ==
    /\ pc = "probe"
    /\ MatchOff
    /\ CacheOff
    /\ FleetOff
    /\ SuggesterOff
    /\ UnpackOff
    /\ ExtractOff
    /\ MatcherOff
    /\ KeysOff
    /\ SingletonOff
    /\ OrderOff
    /\ probe = [pc |-> "run", calls |-> 0, cache |-> <<>>, probed |-> {},
                latest |-> [u \in RepoUrls |-> FALSE], since |-> [u \in RepoUrls |-> {}],
                first |-> [u \in RepoUrls |-> FALSE], last |-> NoProbe]

NextProbe == \E repo \in RepoUrls : P_Probe(repo)

SpecProbe == InitProbe /\ [][NextProbe]_vars

\* Two calls of cached functions in one cache directory.
InitKeys ==
    /\ pc = "keys"
    /\ MatchOff
    /\ CacheOff
    /\ FleetOff
    /\ SuggesterOff
    /\ UnpackOff
    /\ ExtractOff
    /\ MatcherOff
    /\ ProbeOff
    /\ SingletonOff
    /\ OrderOff
    /\ keys \in [pc : {"start"}, calls : [1..2 -> CachedCalls], cache_file : {<<>>},
                  cache_meta_data : {<<>>}]

NextKeys == K_Generate

SpecKeys == InitKeys /\ [][NextKeys]_vars

\* A process at its start: no OperationCache yet; the directories hold
\* nothing, or a complete entry of an earlier run, possibly with other metadata.
InitSingleton ==
    /\ pc = "singleton"
    /\ MatchOff
    /\ CacheOff
    /\ FleetOff
    /\ SuggesterOff
    /\ UnpackOff
    /\ ExtractOff
    /\ MatcherOff
    /\ ProbeOff
    /\ KeysOff
    /\ OrderOff
    /\ \E files_on_disk \in
            [CacheDirs -> {NoFile,
                           Stored(CacheEntry(generate_hash_metadata(TheArg).cache_meta_data,
                                             func(TheArg))),
                           Stored(CacheEntry(StaleMetaData, func(TheArg)))}] :
        oc = NotConstructed(files_on_disk)

NextSingleton ==
    \/ \E d \in Optional(CacheDirs), w \in BOOLEAN : O_Initialize(d, w)
    \/ O_Call
    \/ O_Clear

SpecSingleton == InitSingleton /\ [][NextSingleton]_vars

\* Two suggesters after construction.
InitOrder ==
    /\ pc = "order"
    /\ MatchOff
    /\ CacheOff
    /\ FleetOff
    /\ SuggesterOff
    /\ UnpackOff
    /\ ExtractOff
    /\ MatcherOff
    /\ ProbeOff
    /\ KeysOff
    /\ SingletonOff
    /\ order = NewSuggesters

NextOrder ==
    \/ Archive_apply_transformations
    \/ Archive_find_suggestions
    \/ Archive_determine_unused_spec_sources
    \/ Repo_find_suggestions
    \/ Repo_update_suggestions_with_tags

SpecOrder == InitOrder /\ [][NextOrder]_vars

\* ------------------------------------------------------- specifications
Init ==
    /\ ToolsOff
    /\ pc = "start"
    /\ api = None
    /\ pkg \in 0..MaxArchives
    /\ sp = [srpm_file_path |-> FALSE, spec |-> FALSE, package_source_path |-> FALSE,
             failed |-> {}]
    /\ suggested_archives = NoDict
    /\ suggested_repos = NoDict
    /\ loop = NoLoop
    /\ matched_archives = <<>>
    /\ archive_hashes = {}
    /\ attempts = <<>>
    /\ ares = NoResult
    /\ rres = NoResult
    /\ validation = NoResult
    /\ CacheOff
    /\ FleetOff
    /\ SuggesterOff

\* The match operations called on their own, with suggestions read from a file.
Next ==
    \/ CallMatchRemoteArchives
    \/ A_Begin
    \/ A_Archive
    \/ A_Candidate
    \/ A_NextArchive
    \/ A_Return
    \/ CallMatchRemoteRepos
    \/ R_Begin
    \/ R_Archive
    \/ R_Candidate
    \/ R_NextArchive
    \/ R_Return

Spec == Init /\ [][Next]_vars

\* validate_single_package: both suggesters and both match operations in turn.
NextValidate ==
    \/ CallValidateSinglePackage
    \/ V_GetName
    \/ V_SuggestArchives
    \/ A_Begin
    \/ A_Archive
    \/ A_Candidate
    \/ A_NextArchive
    \/ A_Return
    \/ V_SuggestRepos
    \/ R_Begin
    \/ R_Archive
    \/ R_Candidate
    \/ R_NextArchive
    \/ R_Return
    \/ V_Return

SpecValidate == Init /\ [][NextValidate]_vars

\* ------------------------------------------------------------------ claims
\* The match results returned so far, and the entries a result holds.
Results == {r \in {ares, rres} : r.returned}
Entries(r) == UNION {{r.results[a][k] : k \in 1..Len(r.results[a])} : a \in DOMAIN r.results}
EveryArchiveMatched(r) ==
    \A a \in 1..pkg : a \in DOMAIN r.results /\ any_matched(r.results[a])

C2_ValidIffBothMatching ==
    validation.returned =>
        /\ validation.valid_archives = ares.matching
        /\ validation.valid_repos = rres.matching
        /\ validation.valid <=> (validation.valid_archives /\ validation.valid_repos)
        /\ pkg = 0 => (validation.valid_archives /\ validation.valid_repos)

C2_Witness ==
    /\ validation.returned /\ validation.valid /\ pkg = 1
    /\ \E x \in Entries(ares) : x.matched

\* C3 for the package whose source package the provider cannot produce:
\* validate_single_package returns its result, no exception leaves it.
C3_ValidateReturnsWithoutSourcePackage ==
    (api = "validate_single_package" /\ "provider" \in sp.failed) => pc # "raised"

\* C4 as far as it speaks of a failed regeneration: the match operation still
\* returns (no exception leaves it), and with local archives the result is not
\* matching.
C4_ResultAfterFailedRegeneration ==
    "regeneration" \in sp.failed =>
        /\ pc # "raised"
        /\ \A r \in Results : pkg > 0 => ~r.matching

UniqueEntries(list) ==
    \A i, j \in 1..Len(list) :
        i < j =>
            /\ list[i].remote # list[j].remote
            /\ (list[i].accessible /\ list[j].accessible /\ list[i].hashsum # None)
                   => list[i].hashsum # list[j].hashsum

\* C5: in the list of one local archive no two entries have the same remote
\* URL, and no two accessible entries have the same content hash (archives) or
\* tree hash (repositories).
C5_NoDuplicateEntries ==
    \A r \in Results : \A a \in DOMAIN r.results : UniqueEntries(r.results[a])

C5_Witness ==
    \E r \in Results : \E a \in DOMAIN r.results :
        /\ \E k \in 1..Len(r.attempts[a]) : r.attempts[a][k].dropped
        /\ Len(r.results[a]) = 1

Descending(att, lists) ==
    \A i, j \in 1..Len(att) :
        i < j =>
            LET ci == lists[att[i].sugg].confidence
                cj == lists[att[j].sugg].confidence
            IN ci > cj \/ (ci = cj /\ att[i].sugg < att[j].sugg)

\* C6: the candidates of one local archive are attempted in descending order
\* of confidence, and candidates of equal confidence in the order of the
\* suggestion list.
C6_AttemptsByDescendingConfidence ==
    /\ ares.returned =>
         \A a \in DOMAIN ares.attempts :
            Descending(ares.attempts[a], suggested_archives.lists[a])
    /\ rres.returned =>
         \A a \in DOMAIN rres.attempts :
            Descending(rres.attempts[a], suggested_repos.lists[a])

C6_Witness ==
    \E r \in Results : \E a \in DOMAIN r.attempts :
        /\ Len(r.attempts[a]) = 2
        /\ r.attempts[a][1].sugg = 2

\* C7 as stated: every candidate that was pre-recorded has its entry in the
\* returned list.
C7_EveryAttemptHasAnEntry ==
    \A r \in Results : \A a \in DOMAIN r.results :
        Len(r.results[a]) = Len(r.attempts[a])

Kept(att) == SelectSeq(att, LAMBDA x : ~x.dropped)
DuplicateContent(att, k) ==
    att[k].hashsum # None /\ \E j \in 1..(k - 1) : att[j].hashsum = att[k].hashsum

\* C7: the entry pre-recorded for a candidate stays in the list when its
\* download, clone, checkout, extraction or comparison fails; it is taken out
\* again only when the fetched content has the hash of an earlier candidate of
\* the same local archive.  The returned list holds exactly the entries of the
\* other attempted candidates, in the order of the attempts.
C7_EntryRemainsUnlessDuplicateContent ==
    \A r \in Results : \A a \in DOMAIN r.results :
        /\ \A k \in 1..Len(r.attempts[a]) :
              r.attempts[a][k].dropped <=> DuplicateContent(r.attempts[a], k)
        /\ Len(r.results[a]) = Len(Kept(r.attempts[a]))
        /\ \A k \in 1..Len(r.results[a]) :
              r.results[a][k].hashsum = Kept(r.attempts[a])[k].hashsum

C7_Witness ==
    \E r \in Results : \E a \in DOMAIN r.results :
        /\ Len(r.results[a]) = 2
        /\ ~r.results[a][1].accessible
        /\ r.results[a][2].accessible /\ ~r.results[a][2].compared

\* C8 as stated: matched is true exactly when the candidate was fetched and
\* every file the file matcher recorded for it is MATCHING; an entry that is
\* not accessible is not matched.
C8_MatchedIffFetchedAndAllMatching ==
    \A r \in Results : \A x \in Entries(r) :
        /\ x.matched <=> (x.accessible /\ x.nonmatching = 0)
        /\ ~x.accessible => ~x.matched

\* C8: matched is true exactly when the candidate was fetched, both sides were
\* unpacked, the file matcher and the statistics ran to their end without an
\* exception, and every file the matcher recorded is MATCHING; an entry that
\* is not accessible is not matched.
C8_MatchedIffComparedAndAllMatching ==
    \A r \in Results : \A x \in Entries(r) :
        /\ x.matched <=> (x.accessible /\ x.compared /\ x.nonmatching = 0)
        /\ ~x.accessible => ~x.matched

C8_Witness ==
    \E r \in Results : \E x \in Entries(r) : x.matched /\ x.files_total = MaxFiles

RatioOrZero(count, total) == IF total > 0 THEN TrueDiv(count, total) ELSE Float0

\* C9: in every returned entry the three counts add up to files_total and each
\* ratio is its count divided by files_total, or 0.0 when files_total is 0.
C9_CountsAndRatios ==
    \A r \in Results : \A x \in Entries(r) :
        /\ x.files_matched + x.files_different + x.files_no_counterpart = x.files_total
        /\ x.files_matched_ratio = RatioOrZero(x.files_matched, x.files_total)
        /\ x.files_different_ratio = RatioOrZero(x.files_different, x.files_total)
        /\ x.files_no_counterpart_ratio =
               RatioOrZero(x.files_no_counterpart, x.files_total)
MatchedSuggestions(entries, suggestions) ==
    {k \in 1..Len(suggestions) :
        \E j \in 1..Len(entries) :
            entries[j].matched /\ entries[j].remote = suggestion_url(suggestions[k])}

BestMatched(entries, suggestions, upstream) ==
    LET M == MatchedSuggestions(entries, suggestions)
    IN IF M = {} THEN upstream = None
       ELSE \E k \in M :
               /\ upstream = suggestion_url(suggestions[k])
               /\ \A m \in M :
                     \/ suggestions[k].confidence > suggestions[m].confidence
                     \/ suggestions[k].confidence = suggestions[m].confidence /\ k <= m

\* C10: for each local archive the upstream archive of a validation result is
\* the URL of the suggestion of highest confidence among the suggestions whose
\* URL has an entry with matched = true (the first listed of equals), and null
\* when no entry matched; the upstream repository likewise.
C10_UpstreamIsBestMatchedSuggestion ==
    validation.returned =>
        /\ \A a \in ares.archive_hashes :
              BestMatched(ares.results[a], suggested_archives.lists[a],
                          validation.upstream_archives[a])
        /\ \A a \in rres.archive_hashes :
              BestMatched(rres.results[a], suggested_repos.lists[a],
                          validation.upstream_code_repos[a])

C10_Witness ==
    /\ validation.returned
    /\ \E a \in ares.archive_hashes :
          /\ Len(ares.results[a]) = 2
          /\ \A k \in 1..2 : ares.results[a][k].matched
          /\ suggested_archives.lists[a][1].confidence
                 < suggested_archives.lists[a][2].confidence
          /\ validation.upstream_archives[a] = suggested_archives.lists[a][2].remote_archive

\* C11 as stated: archive_hashes of every match result has an entry for each
\* local archive of the package.
C11_HashForEveryArchive ==
    \A r \in Results : r.archive_hashes = 1..pkg

\* C11: archive_hashes of the result of an initialised adapter has an entry
\* for each local archive, whatever became of its candidates (no suggestion,
\* local extraction failed, nothing matched); the result of a failed
\* initialisation has no entry at all.
C11_HashForEveryArchiveOnceInitialised ==
    \A r \in Results :
        r.archive_hashes = IF r.spec_valid THEN 1..pkg ELSE {}

C11_Witness ==
    \E r \in Results :
        /\ pkg = 2 /\ r.archive_hashes = {1, 2} /\ ~r.matching
        /\ r.results[1] = <<>> /\ r.results[2] # <<>>

\* Calls of the operation cache that have returned to their caller.
ReturnedCalls == {w \in Workers : call[w].pc = "returned"}
SecondCalls == {w \in ReturnedCalls : call[w].prev = call[w].arg}

\* C12: with a cache directory and normal mode, a call with the arguments of
\* the worker's previous call, in a worker that met no cache error, returns the
\* result stored in the cache file, which is func's, and does not execute func.
C12_SecondCallReturnsStoredResult ==
    \A w \in SecondCalls :
        (cache_directory # None /\ ~write_only /\ errors[w] = NoErrors) =>
            /\ ~call[w].executed
            /\ call[w].result =
                    data_to_return_type(return_type_to_json_dict(func(call[w].arg)))
C12_Witness ==
    \E w \in SecondCalls :
        /\ cache_directory # None /\ ~write_only /\ errors[w] = NoErrors
        /\ stats[w].calls = 2 /\ stats[w].cached_results = 1
        /\ ~call[w].executed /\ call[w].result = func(call[w].arg)

\* C13 as stated: at every instant, every cache file on disk is complete JSON
\* or absent, also while a worker writes it and after a writer died.
C13_EntryCompleteOrAbsent ==
    \A p \in Args : ~files[p].exists \/ IsCompleteJson(files[p])

\* C14 as stated: once a call whose write of the cache entry failed has
\* returned, no file exists at the cache path of that entry.
C14_NoFileAfterFailedWrite ==
    \A w \in ReturnedCalls :
        "store" \in call[w].failed => ~files[call[w].cache_file].exists

\* C15 as stated: the hash, retrieve and store error counters of a cache equal
\* the numbers of hash, retrieve and store errors that occurred in it.
C15_CountersEqualErrors ==
    \A w \in Workers :
        /\ stats[w].cached_hash_errors = errors[w].hash
        /\ stats[w].cached_retrieve_errors = errors[w].retrieve
        /\ stats[w].cached_store_errors = errors[w].store

\* C16: a call that met a cache error (computing the cache file, reading the
\* entry, writing the entry) returns without raising, has executed func, and
\* returns func's result.
C16_CacheErrorsAreNotFatal ==
    \A w \in ReturnedCalls :
        call[w].failed # {} =>
            /\ ~call[w].raised
            /\ call[w].executed
            /\ call[w].result = func(call[w].arg)
C16_Witness ==
    \E w \in ReturnedCalls, v \in ReturnedCalls :
        /\ call[w].failed = {"retrieve", "store"}
        /\ call[v].failed = {"hash"}
        /\ call[w].executed /\ call[v].executed
        /\ call[w].result = func(call[w].arg)

\* The fleet run has returned; a worker raised in it; the packages whose
\* validation returned a result.
FleetReturned == fleet.pc = "returned"
WorkerRaised == \E k \in DOMAIN tasks : tasks[k].raised
ValidatedPackages == {combined_packages[k] : k \in {j \in DOMAIN tasks : ~tasks[j].raised}}

\* C17 as stated: when a worker raised, the fleet run returns false, and the
\* report it was asked to write is written and holds the result of every
\* package that was validated without exception.
C17_PartialReportAfterWorkerException ==
    (FleetReturned /\ WorkerRaised /\ fleet.output_json_path) =>
        /\ ~fleet.all_packages_valid
        /\ system_report.written
        /\ \A p \in ValidatedPackages :
                /\ p \in DOMAIN system_report.report
                /\ system_report.report[p] =
                        tasks[CHOOSE k \in DOMAIN tasks : combined_packages[k] = p].valid

\* The packages of the list are in the order: extra packages, then the others.
ExtraSet == Range(fleet.extra_packages)
ExtraFirst ==
    \A j \in DOMAIN combined_packages, k \in DOMAIN combined_packages :
        (j < k /\ combined_packages[k] \in ExtraSet) => combined_packages[j] \in ExtraSet
CapCutsExtra ==
    fleet.nr_packages_to_check # <<>>
        /\ fleet.nr_packages_to_check[1] < Cardinality(ExtraSet)

\* C18 as stated: every extra package is in the list of packages validated and
\* stands before every package that is not extra, with and without a cap.
C18_ExtraIncludedAndFirst ==
    fleet.pc \in {"pool", "returned"} =>
        /\ ExtraSet \subseteq Range(combined_packages)
        /\ ExtraFirst

\* C18: in the list of packages validated no package that is not extra stands
\* before an extra one; every extra package is in the list unless the cap is
\* smaller than the number of distinct extra packages, and then the list is
\* that many extra packages and nothing else.
C18_ExtraFirstAndIncludedUpToCap ==
    fleet.pc \in {"pool", "returned"} =>
        /\ ExtraFirst
        /\ IF CapCutsExtra
           THEN /\ Len(combined_packages) = fleet.nr_packages_to_check[1]
                /\ Range(combined_packages) \subseteq ExtraSet
           ELSE ExtraSet \subseteq Range(combined_packages)
C18_Witness ==
    /\ fleet.pc = "pool"
    /\ fleet.nr_packages_to_check = <<2>>
    /\ Len(fleet.system_packages) = 2
    /\ Cardinality(ExtraSet) = 1
    /\ ExtraSet \cap Range(fleet.system_packages) = {}
    /\ Len(combined_packages) = 2
    /\ combined_packages[1] \in ExtraSet
    /\ combined_packages[2] \notin ExtraSet

\* The stanzas named by the spec_source of some suggestion.
OriginatingSpecSources ==
    UNION {UNION {Range(archive_suggestions[a][k]) : k \in DOMAIN archive_suggestions[a]} :
           a \in DOMAIN archive_suggestions}

\* C19 as stated: once the suggester has returned, the unused Source stanzas
\* are exactly the stanzas that no suggestion names as its spec source; a
\* stanza that originated a suggestion is not among them.
C19_UnusedAreTheUnreferencedSources ==
    suggester.pc = "returned" =>
        unused_spec_sources = Range(suggester.spec_sources) \ OriginatingSpecSources

\* C20 as stated: the heuristic methods never raise; whatever the archives,
\* the stanzas and the state of the files and the network, every method
\* applied by the suggester returns normally.
C20_HeuristicMethodsNeverRaise ==
    ~suggester.raised

\* A match operation was left by an exception while it worked on a candidate
\* of a local archive.
RaisedOnCandidate == pc = "raised" /\ loop.a >= 1 /\ loop.i >= 1

\* C21 as stated: no exception raised while a candidate is downloaded, cloned,
\* hashed, extracted or compared leaves the match operation, so the later
\* candidates and the later local archives are still attempted.
C21_CandidateExceptionsAreSwallowed ==
    ~RaisedOnCandidate

\* The records the strip-URL-fragments transformation emitted.
FragmentRecords ==
    {suggester.transformations[k] : k \in
        {j \in DOMAIN suggester.transformations :
            suggester.transformations[j].name = "remove_url_fragment_from_spec_sources"}}

\* C22 as stated: the strip-URL-fragments transformation emits a record only
\* if it changed at least one declared source; when no source carries a
\* fragment it emits no record.
C22_FragmentRecordOnlyWhenChanged ==
    \A t \in FragmentRecords : t.output_spec_sources # t.input_spec_sources

\* The extractor returned for an archive that is not a zip file.
Unpacked == unpack.pc = "returned" /\ ~unpack.zip
WrittenOutside == {t \in unpack.written : t.outside}
AbsoluteOrTraversal(name) == name.abs \/ name.up
Escapes(name) == lstrip_slash(name).up

C24_FixtureTableReproduced ==
    \A k \in DOMAIN FixtureTable :
        (extract.pc = "done" /\ extract.source_archive = FixtureTable[k].archive_name)
            => extract.outcome = Returns(FixtureTable[k].expected)

\* match_files returned for two archives that both extract.
Matched == matcher.pc = "done" /\ matcher.extract_left /\ matcher.extract_right
LeftIsPartOfRight ==
    /\ DOMAIN matcher.left \subseteq DOMAIN matcher.right
    /\ \A f \in DOMAIN matcher.left : matcher.left[f] = matcher.right[f]
LeftHasFileRightLacks == DOMAIN matcher.left \ DOMAIN matcher.right # {}

\* C25: file matching is a subset relation.  A left archive whose files are
\* all in the right archive with the same content matches, so {A} matches
\* {A, B}; a left archive with a file the right archive lacks does not match,
\* so {A, B} does not match {A}.
C25_MatchingIsSubsetRelation ==
    Matched =>
        /\ LeftIsPartOfRight => matcher.result
        /\ LeftHasFileRightLacks => ~matcher.result

\* {A} was matched as left against {A, B} with the same A, and matched.
C25_Witness ==
    /\ Matched
    /\ DOMAIN matcher.left = {"A"}
    /\ DOMAIN matcher.right = {"A", "B.png"}
    /\ matcher.left["A"] = matcher.right["A"]
    /\ matcher.inner = <<MATCHING>>
    /\ matcher.result

\* C26 as stated: within one process every probe of a URL that was probed
\* before returns the first result, without a remote git query.
C26_LaterProbesReturnFirstResult ==
    probe.last.again =>
        (probe.last.result = probe.first[probe.last.repo] /\ ~probe.last.queried)

\* C26 amended: a probe of a URL that was probed before, with fewer than
\* maxsize other URLs probed since, returns the result of that earlier probe
\* without a remote git query.
C26_RecentProbesAreCached ==
    (probe.last.again /\ Cardinality(probe.last.since) < maxsize) =>
        (probe.last.result = probe.last.latest /\ ~probe.last.queried)

\* A repository URL probed again after maxsize - 1 other URLs, answered TRUE
\* from the cache.
C26_Witness ==
    /\ probe.last.again
    /\ looks_like_git_repo(probe.last.repo)
    /\ Cardinality(probe.last.since) = maxsize - 1
    /\ probe.last.result
    /\ ~probe.last.queried

\* Two calls read and write the same stored result: the same cache file, and
\* the metadata the loader compares is equal.
ShareStoredResult ==
    /\ keys.pc = "done"
    /\ keys.cache_file[1] = keys.cache_file[2]
    /\ keys.cache_meta_data[1] = keys.cache_meta_data[2]

\* C27 as stated (its second part): two cached calls that differ in the
\* function or in an argument value never share a stored result.
C27_DifferentCallsNeverShareResult ==
    keys.calls[1] # keys.calls[2] => ~ShareStoredResult

\* C28 as stated: once initialize_cache(cache_dir, write_only) has returned,
\* every later cached call uses cache_dir and write_only, whatever happened
\* before in the process, and initialize_cache returned true exactly when the
\* cache uses the requested directory.
C28_InitializeCacheTakesEffect ==
    oc.init.called =>
        /\ oc.init.returned = (oc.cache_directory = oc.init.cache_directory)
        /\ oc.last.called =>
                /\ oc.last.cache_directory = oc.init.cache_directory
                /\ oc.last.write_only = oc.init.write_only

\* C29 as stated: the cache-hit statistic is the number of cached calls, since
\* initialisation or the last clear, that returned a stored result without
\* executing the function, and it never exceeds the total-calls statistic.
C29_HitsCountServedCalls ==
    /\ oc.cached_results = oc.served
    /\ oc.cached_results <= oc.calls

\* C30 as stated: a suggester method called out of order (apply_transformations
\* twice or after find_suggestions, find_suggestions twice,
\* determine_unused_spec_sources before find_suggestions; for repositories
\* find_suggestions twice, update_suggestions_with_tags before find_suggestions
\* or a second time) is rejected with RuntimeError and leaves the result as it
\* was.
C30_OutOfOrderCallsAreRejected ==
    order.last.out_of_order => (order.last.rejected /\ order.last.unchanged)

====
